---------------------------- MODULE Spec2Model ----------------------------
(***************************************************************************)
(* A model of the release engine of cargo-workspaces: the publish order    *)
(* (utils/dag.rs), the version planner's propagation loop                  *)
(* (utils/version.rs), group resolution (utils/pkg.rs), the manifest       *)
(* editor (utils/cargo.rs) and the publish coordinator (publish.rs).       *)
(*                                                                         *)
(* Each component has its own specification (SpecDag, SpecVersion, ...).   *)
(* All of them share one set of variables; a specification keeps the       *)
(* variables of the other components at their idle value.                  *)
(***************************************************************************)
EXTENDS Integers, Sequences, FiniteSets, TLC

VARIABLES
    \* ---- utils/dag.rs
    deps,          \* the declared dependency edges of the workspace packages
    pkgs,          \* dag(): the candidate list `pkgs`
    visited,       \* dag(): the IndexSet `visited`, in insertion order
    dagState,      \* "idle" | "ready" | "done" | "diverged"
    \* ---- utils/version.rs, do_versioning
    ws,            \* the workspace: each package's class (group, independence)
    changed0,      \* the changed set returned by get_changed_pkgs
    changed_p,     \* do_versioning: `changed_p`
    unchanged_p,   \* do_versioning: `unchanged_p`
    bumped_pkgs,   \* do_versioning: `bumped_pkgs`, group name -> plan entry
    iter,          \* the number of iterations of the propagation loop so far
    unversioned_deps, \* do_versioning: the edges handed to alert_unversioned
    verPc,         \* "idle" | "loop" | "planned" | "error"
    \* ---- utils/pkg.rs, get_group_packages
    grpIn,         \* the arguments: workspace config, all, filter, with_excluded
    grpOut,        \* the call's result, once it has returned
    \* ---- utils/cargo.rs, change_versions and rename_packages
    manIn,         \* the arguments: manifest text, pkg_name, edit map, exact
    manOut,        \* the call's result: the new text and the inherited set
    \* ---- publish.rs, Publish::run
    pubCfg,        \* the candidate list `pkgs` and the private packages
    remote,        \* the registry: the packages visible at their target version
    pending,       \* uploads the registry accepted and does not show yet
    cache,         \* the local copy of the registry index
    pub,           \* the run: its order, position, and what it has done
    \* ---- utils/cargo.rs, check_index
    chk,           \* one call of check_index: its position, clock and counts
    \* ---- utils/version.rs, do_versioning after the propagation loop
    app,           \* the alert, the confirmation, and what has been written
    \* ---- utils/version.rs, the version bumps offered by ask_version
    bump,          \* a version, an identifier, and the bumped version
    \* ---- publish.rs, Publish::run and its git tags
    tg,            \* the run, the tags of the repository and of the remote
    \* ---- publish.rs, Publish::run: the candidates it publishes
    sel,           \* the mode of the run, its candidates, and what went to cargo publish
    \* ---- utils/config.rs, read_config and validate_group_name
    nm,            \* the group names of a configuration, and how reading it ended
    \* ---- utils/git.rs, GitOpt::validate and GitOpt::commit
    git            \* the options, the repository, and how far the two calls got

dagVars == <<pkgs, visited, dagState>>

verVars == <<ws, changed0, changed_p, unchanged_p, bumped_pkgs, iter, unversioned_deps, verPc>>

grpVars == <<grpIn, grpOut>>

manVars == <<manIn, manOut>>

pubVars == <<pubCfg, remote, pending, cache, pub>>

vars == <<deps, dagVars, verVars, grpVars, manVars, pubVars, chk, app, bump, tg, sel, nm, git>>

\* the variables of all components but one
notDag == <<verVars, grpVars, manVars, pubVars, chk, app, bump, tg, sel, nm, git>>

notVer == <<dagVars, grpVars, manVars, pubVars, chk, app, bump, tg, sel, nm, git>>

notGrp == <<dagVars, verVars, manVars, pubVars, chk, app, bump, tg, sel, nm, git>>

notMan == <<dagVars, verVars, grpVars, pubVars, chk, app, bump, tg, sel, nm, git>>

notPub == <<dagVars, verVars, grpVars, manVars, chk, app, bump, tg, sel, nm, git>>

notChk == <<dagVars, verVars, grpVars, manVars, pubVars, app, bump, tg, sel, nm, git>>

notApp == <<dagVars, verVars, grpVars, manVars, pubVars, chk, bump, tg, sel, nm, git>>

notBump == <<dagVars, verVars, grpVars, manVars, pubVars, chk, app, tg, sel, nm, git>>

notTg == <<dagVars, verVars, grpVars, manVars, pubVars, chk, app, bump, sel, nm, git>>

notSel == <<dagVars, verVars, grpVars, manVars, pubVars, chk, app, bump, tg, nm, git>>

notNm == <<dagVars, verVars, grpVars, manVars, pubVars, chk, app, bump, tg, sel, git>>

notGit == <<dagVars, verVars, grpVars, manVars, pubVars, chk, app, bump, tg, sel, nm>>

\* the values of the variables of a component that a specification leaves out
DagIdle == /\ pkgs = <<>>
           /\ visited = <<>>
           /\ dagState = "idle"

VerIdle == /\ ws = <<>>
           /\ changed0 = {}
           /\ changed_p = {}
           /\ unchanged_p = {}
           /\ bumped_pkgs = <<>>
           /\ iter = 0
           /\ unversioned_deps = {}
           /\ verPc = "idle"

GrpIdle == /\ grpIn = <<>>
           /\ grpOut = <<>>

ManIdle == /\ manIn = <<>>
           /\ manOut = <<>>

PubIdle == /\ pubCfg = <<>>
           /\ remote = {}
           /\ pending = {}
           /\ cache = {}
           /\ pub = <<>>

ChkIdle == chk = <<>>

AppIdle == app = <<>>

BumpIdle == bump = <<>>

TgIdle == tg = <<>>

SelIdle == sel = <<>>

NmIdle == nm = <<>>

GitIdle == git = <<>>

NotDagIdle == VerIdle /\ GrpIdle /\ ManIdle /\ PubIdle /\ ChkIdle /\ AppIdle /\ BumpIdle /\ TgIdle /\ SelIdle /\ NmIdle /\ GitIdle

NotVerIdle == DagIdle /\ GrpIdle /\ ManIdle /\ PubIdle /\ ChkIdle /\ AppIdle /\ BumpIdle /\ TgIdle /\ SelIdle /\ NmIdle /\ GitIdle

NotGrpIdle == DagIdle /\ VerIdle /\ ManIdle /\ PubIdle /\ ChkIdle /\ AppIdle /\ BumpIdle /\ TgIdle /\ SelIdle /\ NmIdle /\ GitIdle

NotManIdle == DagIdle /\ VerIdle /\ GrpIdle /\ PubIdle /\ ChkIdle /\ AppIdle /\ BumpIdle /\ TgIdle /\ SelIdle /\ NmIdle /\ GitIdle

NotPubIdle == DagIdle /\ VerIdle /\ GrpIdle /\ ManIdle /\ ChkIdle /\ AppIdle /\ BumpIdle /\ TgIdle /\ SelIdle /\ NmIdle /\ GitIdle

NotChkIdle == DagIdle /\ VerIdle /\ GrpIdle /\ ManIdle /\ PubIdle /\ AppIdle /\ BumpIdle /\ TgIdle /\ SelIdle /\ NmIdle /\ GitIdle

NotAppIdle == DagIdle /\ VerIdle /\ GrpIdle /\ ManIdle /\ PubIdle /\ ChkIdle /\ BumpIdle /\ TgIdle /\ SelIdle /\ NmIdle /\ GitIdle

NotBumpIdle == DagIdle /\ VerIdle /\ GrpIdle /\ ManIdle /\ PubIdle /\ ChkIdle /\ AppIdle /\ TgIdle /\ SelIdle /\ NmIdle /\ GitIdle

NotGitIdle ==
    DagIdle /\ VerIdle /\ GrpIdle /\ ManIdle /\ PubIdle /\ ChkIdle /\ AppIdle /\ BumpIdle /\ TgIdle /\ SelIdle /\ NmIdle

NotNmIdle ==
    DagIdle /\ VerIdle /\ GrpIdle /\ ManIdle /\ PubIdle /\ ChkIdle /\ AppIdle /\ BumpIdle /\ TgIdle /\ SelIdle /\ GitIdle

NotSelIdle ==
    DagIdle /\ VerIdle /\ GrpIdle /\ ManIdle /\ PubIdle /\ ChkIdle /\ AppIdle /\ BumpIdle /\ TgIdle /\ NmIdle /\ GitIdle

NotTgIdle ==
    DagIdle /\ VerIdle /\ GrpIdle /\ ManIdle /\ PubIdle /\ ChkIdle /\ AppIdle /\ BumpIdle /\ SelIdle /\ NmIdle /\ GitIdle

(***************************************************************************)
(* Generic helpers                                                         *)
(***************************************************************************)
Range(s) == {s[i] : i \in DOMAIN s}

Contains(s, x) == \E i \in DOMAIN s : s[i] = x

\* position of x in s (0 when absent)
IndexOf(s, x) == IF Contains(s, x) THEN CHOOSE i \in DOMAIN s : s[i] = x /\ \A j \in 1..(i-1) : s[j] # x ELSE 0

NoDup(s) == \A i, j \in DOMAIN s : i # j => s[i] # s[j]

\* all duplicate-free sequences over the set S
Perms(S) == {s \in UNION {[1..n -> S] : n \in 0..Cardinality(S)} : NoDup(s)}

\* the subsets of S with at most n elements
RECURSIVE SubsetsUpTo(_, _)
SubsetsUpTo(S, n) ==
    IF n = 0 \/ S = {} THEN {{}}
    ELSE LET x == CHOOSE y \in S : TRUE
             rest == S \ {x}
         IN  SubsetsUpTo(rest, n) \cup {T \cup {x} : T \in SubsetsUpTo(rest, n - 1)}

(***************************************************************************)
(* utils/dag.rs                                                            *)
(***************************************************************************)
\* workspace packages; a package's name stands for its manifest path too
Pkgs == {"a", "b", "c", "d"}

PkgOrder == <<"a", "b", "c", "d">>

\* the packages of the workspaces that dag() is run on
DagPkgs == {"a", "b", "c"}

\* semver::Version (no build metadata)
V(maj, min, pat) == [major |-> maj, minor |-> min, patch |-> pat, pre |-> <<>>]

\* semver::VersionReq: "*", ">=0.0.0" and the caret requirement "^1.0.0"
ReqAny == [op |-> "*", v |-> V(0, 0, 0)]

ReqGe000 == [op |-> ">=", v |-> V(0, 0, 0)]

ReqCaret100 == [op |-> "^", v |-> V(1, 0, 0)]

ReqOrder == <<ReqAny, ReqGe000, ReqCaret100>>

\* cargo_metadata::DependencyKind
Kinds == <<"normal", "build", "dev">>

\* the most dependency declarations a modelled workspace holds
MaxEdges == 3

\* the most packages that get_changed_pkgs reports as changed
MaxChanged == 2

\* the declarations a candidate may hold; on itself, a package depends as a
\* dev-dependency, and a (normal) and b (build) also otherwise
EdgeUniverse ==
    {e \in [from : DagPkgs, to : DagPkgs, kind : Range(Kinds), req : {ReqAny}] :
        \/ e.from # e.to
        \/ e.kind = "dev"
        \/ e.from = "a" /\ e.kind = "normal"
        \/ e.from = "b" /\ e.kind = "build"}

\* pkg.dependencies: the declarations of p, ordered by target then kind
Dependencies(p) ==
    LET nk == Len(Kinds)
        nr == Len(ReqOrder)
        all == [i \in 1..(Len(PkgOrder) * nk * nr) |->
                  [from |-> p,
                   to   |-> PkgOrder[((i - 1) \div (nk * nr)) + 1],
                   kind |-> Kinds[(((i - 1) \div nr) % nk) + 1],
                   req  |-> ReqOrder[((i - 1) % nr) + 1]]]
    IN  SelectSeq(all, LAMBDA e : e \in deps)

\* visited.insert(&pkg.manifest_path) on an IndexSet
SetInsert(vis, p) == IF Contains(vis, p) THEN vis ELSE Append(vis, p)

\* recursion deeper than the number of packages repeats a package on the
\* call stack, and then dag_insert never returns
DagFuel == Cardinality(Pkgs) + 1

Diverged == [seq |-> <<>>, div |-> TRUE]

RECURSIVE dag_insert_pre(_, _, _, _)
RECURSIVE dag_deps_pre(_, _, _, _)
\* (mutant) dag_insert that records the package before its dependencies
dag_insert_pre(cands, p, vis, fuel) ==
    IF vis.div \/ fuel = 0 THEN Diverged
    ELSE IF Contains(vis.seq, p) THEN vis
    ELSE dag_deps_pre(cands, Dependencies(p), [vis EXCEPT !.seq = SetInsert(vis.seq, p)], fuel)

dag_deps_pre(cands, ds, vis, fuel) ==
    IF ds = <<>> \/ vis.div THEN vis
    ELSE LET d == Head(ds)
             v2 == IF Contains(cands, d.to) /\ d.kind \in {"normal", "build"}
                   THEN dag_insert_pre(cands, d.to, vis, fuel - 1)
                   ELSE vis
         IN  dag_deps_pre(cands, Tail(ds), v2, fuel)

RECURSIVE dag_insert_guarded(_, _, _, _)
RECURSIVE dag_deps_guarded(_, _, _, _)
\* (mutant) dag_insert with a guard: it returns when it meets a package
\* whose dependencies it is still visiting
dag_insert_guarded(cands, p, vis, fuel) ==
    IF fuel = 0 \/ Contains(vis.seq, p) THEN vis
    ELSE LET v2 == dag_deps_guarded(cands, Dependencies(p), vis, fuel)
         IN  [v2 EXCEPT !.seq = SetInsert(v2.seq, p)]

dag_deps_guarded(cands, ds, vis, fuel) ==
    IF ds = <<>> THEN vis
    ELSE LET d == Head(ds)
             v2 == IF Contains(cands, d.to) /\ d.kind \in {"normal", "build"}
                   THEN dag_insert_guarded(cands, d.to, vis, fuel - 1)
                   ELSE vis
         IN  dag_deps_guarded(cands, Tail(ds), v2, fuel)

RECURSIVE dag_insert(_, _, _, _)
RECURSIVE dag_deps(_, _, _, _)
\* dag_insert: depth-first, post-order
dag_insert(cands, p, vis, fuel) ==
    IF vis.div \/ fuel = 0 THEN Diverged
    ELSE IF Contains(vis.seq, p) THEN vis
    ELSE LET v2 == dag_deps(cands, Dependencies(p), vis, fuel)
         IN  IF v2.div THEN Diverged
             ELSE [v2 EXCEPT !.seq = SetInsert(v2.seq, p)]

\* the `for d in &pkg.dependencies` loop of dag_insert
dag_deps(cands, ds, vis, fuel) ==
    IF ds = <<>> \/ vis.div THEN vis
    ELSE LET d == Head(ds)
             v2 == IF Contains(cands, d.to) /\ d.kind \in {"normal", "build"}
                   THEN dag_insert(cands, d.to, vis, fuel - 1)
                   ELSE vis
         IN  dag_deps(cands, Tail(ds), v2, fuel)

RECURSIVE dag_loop(_, _, _)
\* the `for (pkg, version) in pkgs` loop of dag()
dag_loop(cands, rest, vis) ==
    IF rest = <<>> \/ vis.div THEN vis
    ELSE dag_loop(cands, Tail(rest), dag_insert(cands, Head(rest), vis, DagFuel))

dag(cands) == dag_loop(cands, cands, [seq |-> <<>>, div |-> FALSE])

InitDag ==
    /\ deps \in SubsetsUpTo(EdgeUniverse, MaxEdges)
    /\ pkgs \in Perms(DagPkgs)
    /\ visited = <<>>
    /\ dagState = "ready"
    /\ NotDagIdle

\* one call of dag(&pkgs)
RunDag ==
    /\ dagState = "ready"
    /\ LET r == dag(pkgs)
       IN  /\ visited' = r.seq
           /\ dagState' = IF r.div THEN "diverged" ELSE "done"
    /\ UNCHANGED <<deps, pkgs, notDag>>

NextDag == RunDag

SpecDag == InitDag /\ [][NextDag]_vars

\* the normal/build edges between candidates
OrderingEdges == {e \in deps : /\ e.kind \in {"normal", "build"}
                               /\ Contains(pkgs, e.from)
                               /\ Contains(pkgs, e.to)}

RECURSIVE ReachableFrom(_, _, _)
\* the packages reachable from the set S over the edges E in at most n steps
ReachableFrom(S, E, n) ==
    IF n = 0 THEN S
    ELSE ReachableFrom(S \cup {e.to : e \in {f \in E : f.from \in S}}, E, n - 1)

\* no candidate reaches itself over normal/build edges
Acyclic ==
    \A p \in Pkgs :
        p \notin ReachableFrom({e.to : e \in {f \in OrderingEdges : f.from = p}},
                               OrderingEdges, Cardinality(Pkgs))

\* C1: for an acyclic candidate set, dag() terminates and its order places
\* every package strictly after each of its normal/build dependencies that
\* is in the candidate set
C1_TopoOrder ==
    (dagState # "ready" /\ Acyclic) =>
        /\ dagState = "done"
        /\ \A e \in OrderingEdges :
              /\ IndexOf(visited, e.to) > 0
              /\ IndexOf(visited, e.to) < IndexOf(visited, e.from)

\* a dependency listed after its dependent is moved in front of it
C1_Witness ==
    /\ dagState = "done"
    /\ Acyclic
    /\ pkgs = <<"a", "b", "c">>
    /\ visited = <<"c", "b", "a">>

(***************************************************************************)
(* utils/version.rs: the propagation loop of do_versioning                 *)
(***************************************************************************)
\* Option<Version>
None == [some |-> FALSE, v |-> V(0, 0, 0)]

Some(v) == [some |-> TRUE, v |-> v]

\* Ord for semver::Version (versions without prerelease)
VerLess(x, y) ==
    \/ x.major < y.major
    \/ x.major = y.major /\ x.minor < y.minor
    \/ x.major = y.major /\ x.minor = y.minor /\ x.patch < y.patch

\* Iterator::max over the versions of a non-empty set
MaxVersion(S) == CHOOSE v \in S : \A w \in S : w = v \/ VerLess(w, v)

\* VersionReq::matches for the modelled requirements
Matches(req, ver) ==
    CASE req.op = "*"  -> TRUE
      [] req.op = ">=" -> ~VerLess(ver, req.v)
      [] req.op = "="  -> ver = req.v
      [] req.op = "^"  ->
            IF req.v.major > 0
            THEN ver.major = req.v.major /\ ~VerLess(ver, req.v)
            ELSE IF req.v.minor > 0
            THEN ver.major = 0 /\ ver.minor = req.v.minor /\ ver.patch >= req.v.patch
            ELSE ver.major = 0 /\ ver.minor = 0 /\ ver.patch = req.v.patch

\* is_unversioned for VersionReq
is_unversioned_req(req) == req = ReqGe000 \/ req = ReqAny

\* the current version of each package (Package::version)
CurVersion == [p \in Pkgs |-> IF p = "c" THEN V(1, 0, 1) ELSE V(1, 0, 0)]

\* what ask_version may return: any version, the current one included
AnswerVersions == {V(0, 0, 0), V(1, 0, 0), V(1, 0, 1), V(2, 0, 0)}

\* the groups that can hold planned packages, the Default group first
PlanGroups == <<"default", "g1">>

\* the version a group declares: the custom group g1 has a fixed version
GroupVer(g) == IF g = "g1" THEN Some(V(2, 0, 0)) ELSE None

\* a package's class: its group and its `independent` flag
PkgClass == [group : {"default", "g1", "excluded"}, independent : BOOLEAN]

Cohort(g) == [group |-> g, independent |-> FALSE]

Indep(g) == [group |-> g, independent |-> TRUE]

\* the (to, from) pairs that may carry a dependency declaration: they hold
\* the chain a <- b <- c and the diamond a <- {b, c} <- d
VerPairs == {<<"b", "a">>, <<"c", "a">>, <<"c", "b">>, <<"d", "b">>, <<"d", "c">>}

VerEdge(pr, kind, req) == [from |-> pr[1], to |-> pr[2], kind |-> kind, req |-> req]

\* the packages of `ps`, in workspace order
InOrder(ps) == SelectSeq(PkgOrder, LAMBDA p : p \in ps)

\* bumped_pkgs.entry(group).or_insert(Default::default())
DefaultEntry == [common_version |-> None, new_group_version |-> None, new_versions |-> <<>>]

\* (mutant) new_versions.push((p, new, old)) without the comparison of old
\* and new
RECURSIVE PushAll_unguarded(_, _, _)
PushAll_unguarded(nv, ps, newOf) ==
    IF ps = <<>> THEN nv
    ELSE LET p == Head(ps)
         IN  PushAll_unguarded(Append(nv, [pkg |-> p, new |-> newOf[p], old |-> CurVersion[p]]),
                               Tail(ps), newOf)

\* new_versions.push((p, new, old)) when old != new, for the packages of ps
RECURSIVE PushAll(_, _, _)
PushAll(nv, ps, newOf) ==
    IF ps = <<>> THEN nv
    ELSE LET p == Head(ps)
             old == CurVersion[p]
             new == newOf[p]
         IN  PushAll(IF old # new THEN Append(nv, [pkg |-> p, new |-> new, old |-> old]) ELSE nv,
                     Tail(ps), newOf)

\* the asks of one get_new_versions call: one per cohort that has no fixed
\* and no common version yet, one per independent package
AskKeys(changed, bp) ==
    LET live == {p \in changed : ws[p].group # "excluded"}
    IN  {ws[p].group : p \in {q \in live : /\ ~ws[q].independent
                                           /\ ~GroupVer(ws[q].group).some
                                           /\ \/ ws[q].group \notin DOMAIN bp
                                              \/ ~bp[ws[q].group].common_version.some}}
        \cup {p \in live : ws[p].independent}

\* the `group_version` of get_new_versions for the cohort `same` of group g
GroupVersion(entry, g, same, ans) ==
    IF GroupVer(g).some THEN GroupVer(g).v
    ELSE IF ~entry.common_version.some THEN ans[g]
    ELSE MaxVersion({CurVersion[p] : p \in same})

\* the body of the `for (group_name, (group_ver, pkgs))` loop for group g
PlanGroup(bp, g, members, ans) ==
    LET entry == IF g \in DOMAIN bp THEN bp[g] ELSE DefaultEntry
        same  == {p \in members : ~ws[p].independent}
        indep == {p \in members : ws[p].independent}
        gv    == GroupVersion(entry, g, same, ans)
        e1    == IF same = {} THEN entry
                 ELSE [common_version |->
                          IF ~GroupVer(g).some /\ ~entry.common_version.some
                          THEN Some(MaxVersion({CurVersion[p] : p \in same}))
                          ELSE entry.common_version,
                       new_group_version |->
                          IF entry.new_group_version.some THEN entry.new_group_version
                          ELSE Some(gv),
                       new_versions |->
                          PushAll(entry.new_versions, InOrder(same), [p \in same |-> gv])]
        e2    == [e1 EXCEPT !.new_versions =
                      PushAll(e1.new_versions, InOrder(indep), [p \in indep |-> ans[p]])]
    IN  IF e2.new_versions = <<>>
        THEN [h \in DOMAIN bp \ {g} |-> bp[h]]
        ELSE [h \in DOMAIN bp \cup {g} |-> IF h = g THEN e2 ELSE bp[h]]

\* get_new_versions: Excluded packages are dropped, the others are planned
\* group by group
RECURSIVE get_new_versions(_, _, _, _)
get_new_versions(changed, bp, groups, ans) ==
    IF groups = <<>> THEN bp
    ELSE LET g == Head(groups)
             members == {p \in changed : ws[p].group = g}
         IN  get_new_versions(changed,
                              IF members = {} THEN bp ELSE PlanGroup(bp, g, members, ans),
                              Tail(groups), ans)

\* the new version recorded for the package `name` in a group's entries
\* (the first entry of that name)
FoundVersion(nv, name) ==
    LET i == CHOOSE k \in DOMAIN nv : nv[k].pkg = name /\ \A j \in 1..(k - 1) : nv[j].pkg # name
    IN  nv[i].new

\* the predicate of the partition of unchanged_p: some dependency of p got a
\* new version that its requirement does not match, or that it does not
\* constrain
PulledIn(p, bp) ==
    \E x \in Range(Dependencies(p)) : \E g \in DOMAIN bp :
        /\ \E k \in DOMAIN bp[g].new_versions : bp[g].new_versions[k].pkg = x.to
        /\ LET version == FoundVersion(bp[g].new_versions, x.to)
           IN  ~Matches(x.req, version) \/ is_unversioned_req(x.req)

\* (mutant) a partition that puts the packages it pulls in back into
\* unchanged_p
KeepPulledIn(unchanged, pulled) == unchanged

\* the unchanged_p that the partition leaves
StillUnchanged(unchanged, pulled) == unchanged \ pulled

InitVersion ==
    /\ \E req \in [VerPairs -> {"none", ReqAny.op, ReqCaret100.op}] :
          /\ \A pr \in {<<"c", "a">>, <<"d", "c">>} : req[pr] # ReqCaret100.op
          /\ deps = {VerEdge(pr, "normal", IF req[pr] = ReqAny.op THEN ReqAny ELSE ReqCaret100) :
                       pr \in {q \in VerPairs : req[q] # "none"}}
    /\ ws \in [Pkgs -> PkgClass]
    /\ ws["a"] \in {Cohort("default"), Indep("default")}
    /\ ws["b"] \in {Cohort("default"), Cohort("g1")}
    /\ ws["c"] \in {Cohort("default"), Indep("default"), Cohort("excluded")}
    /\ ws["d"] = Cohort("default")
    /\ changed0 \in {S \in SUBSET Pkgs : S # {} /\ Cardinality(S) <= MaxChanged}
    /\ changed_p = changed0
    /\ unchanged_p = Pkgs \ changed0
    /\ bumped_pkgs = <<>>
    /\ iter = 0
    /\ unversioned_deps = {}
    /\ verPc = "loop"
    /\ NotVerIdle

\* one iteration of `while !changed_p.is_empty()`: plan the changed set, then
\* partition unchanged_p
PlanIteration ==
    /\ verPc = "loop"
    /\ changed_p # {}
    /\ \E ans \in [AskKeys(changed_p, bumped_pkgs) -> AnswerVersions] :
          LET bp == get_new_versions(changed_p, bumped_pkgs, PlanGroups, ans)
              pulled == {p \in unchanged_p : PulledIn(p, bp)}
          IN  /\ bumped_pkgs' = bp
              /\ changed_p' = pulled
              /\ unchanged_p' = StillUnchanged(unchanged_p, pulled)
    /\ iter' = iter + 1
    /\ UNCHANGED <<deps, ws, changed0, unversioned_deps, verPc, notVer>>

\* ask_version fails (the prompt cannot be read): do_versioning returns Err
PlanFails ==
    /\ verPc = "loop"
    /\ changed_p # {}
    /\ AskKeys(changed_p, bumped_pkgs) # {}
    /\ verPc' = "error"
    /\ UNCHANGED <<deps, ws, changed0, changed_p, unchanged_p, bumped_pkgs, iter,
                   unversioned_deps, notVer>>

\* is_unversioned for Version (build metadata is not modelled)
is_unversioned_ver(v) == v.major = 0 /\ v.minor = 0 /\ v.patch = 0 /\ v.pre = <<>>

\* `new_versions` of do_versioning: the entries of all groups of the plan
PlanEntries == UNION {Range(bumped_pkgs[g].new_versions) : g \in DOMAIN bumped_pkgs}

\* the new version of the planned package p
NewVersionOf(p) == (CHOOSE e \in PlanEntries : e.pkg = p).new

\* the test of one dependency x of the planned package `from` whose new
\* version is new_version
ListsEdge(x, new_version) == is_unversioned_req(x.req) /\ ~is_unversioned_ver(new_version)

\* the edges pushed into `unversioned_deps`, each with the new version of
\* its target
UnversionedDeps ==
    {[from |-> x.from, to |-> x.to, req |-> x.req, ver |-> NewVersionOf(x.to)] :
        x \in {y \in deps : /\ \E e \in PlanEntries : e.pkg = y.from
                            /\ \E e \in PlanEntries : e.pkg = y.to
                            /\ ListsEdge(y, NewVersionOf(y.from))}}

\* the loop condition fails: the plan is complete, and the edges of the
\* alert are collected from it
LoopExit ==
    /\ verPc = "loop"
    /\ changed_p = {}
    /\ verPc' = "planned"
    /\ unversioned_deps' = UnversionedDeps
    /\ UNCHANGED <<deps, ws, changed0, changed_p, unchanged_p, bumped_pkgs, iter, notVer>>

NextVersion == PlanIteration \/ PlanFails \/ LoopExit

SpecVersion == InitVersion /\ [][NextVersion]_vars

\* the packages that have an entry in the version plan
Planned == UNION {{e.pkg : e \in Range(bumped_pkgs[g].new_versions)} : g \in DOMAIN bumped_pkgs}

\* C2: in a chain a <- b <- c of unconstrained normal dependencies where only
\* a was changed and a got a new version, b and c have an entry in the plan
\* when the loop has finished (b and c are cohort members: no prompt can
\* keep their version)
C2_ChainPlanned ==
    (/\ verPc = "planned"
     /\ changed0 = {"a"}
     /\ "a" \in Planned
     /\ VerEdge(<<"b", "a">>, "normal", ReqAny) \in deps
     /\ VerEdge(<<"c", "b">>, "normal", ReqAny) \in deps
     /\ \A p \in {"b", "c"} : ws[p].group # "excluded" /\ ~ws[p].independent)
    => {"b", "c"} \subseteq Planned

\* C3: the propagation loop terminates: no package ever moves back into
\* unchanged_p, an iteration that leaves a non-empty changed set (so that
\* the loop goes on) has strictly shrunk unchanged_p, and the loop runs at
\* most once more than there were unchanged packages
C3_LoopTerminates ==
    /\ [][/\ unchanged_p' \subseteq unchanged_p
          /\ (iter' # iter /\ changed_p' # {}) => unchanged_p' # unchanged_p]_vars
    /\ [](iter <= Cardinality(Pkgs \ changed0) + 1)

\* the diamond a <- {b, c} <- d: changing a alone pulls in b, c and then d,
\* and the loop ends
C3_Witness ==
    /\ verPc = "planned"
    /\ changed0 = {"a"}
    /\ {VerEdge(<<"b", "a">>, "normal", ReqAny), VerEdge(<<"c", "a">>, "normal", ReqAny),
        VerEdge(<<"d", "b">>, "normal", ReqAny), VerEdge(<<"d", "c">>, "normal", ReqAny)}
          \subseteq deps
    /\ unchanged_p = {}
    /\ iter = 3

(***************************************************************************)
(* utils/pkg.rs: get_group_packages                                        *)
(***************************************************************************)
\* the workspace members that group resolution is run on
GrpPkgs == {"a", "b", "c"}

\* a glob is modelled by the set of package paths it matches; a custom group
\* by its name and the union of what its member globs match
GroupSpecs == {<<[name |-> "g1", members |-> m1], [name |-> "g2", members |-> m2]>> :
                 m1 \in SUBSET GrpPkgs, m2 \in SUBSET GrpPkgs}

\* the `filter` argument: None, or the group names to keep
Filters == {[some |-> FALSE, names |-> {}]}
           \cup {[some |-> TRUE, names |-> n] : n \in {{"default"}, {"g1"}, {"g2", "excluded"}}}

\* (mutant) a group_name that looks at the custom groups before the exclusion
group_name_custom_first(p) ==
    LET hits == SelectSeq(grpIn.group, LAMBDA g : p \in g.members)
    IN  IF hits # <<>> THEN Head(hits).name
        ELSE IF p \in grpIn.exclude THEN "excluded" ELSE "default"

\* the `group_name` of a package: an exclusion match wins, then the first
\* custom group one of whose globs matches, else Default
group_name(p) ==
    IF p \in grpIn.exclude THEN "excluded"
    ELSE LET hits == SelectSeq(grpIn.group, LAMBDA g : p \in g.members)
         IN  IF hits # <<>> THEN Head(hits).name ELSE "default"

\* the packages the loop skips: private ones, unless `all` is set
Skipped(p) == ~grpIn.all /\ p \in grpIn.private

\* the packages that pass the `filter` argument
Kept(p) == ~grpIn.filter.some \/ group_name(p) \in grpIn.filter.names

\* (mutant) a get_group_packages whose `non_empty` counts the Excluded
\* packages too
get_group_packages_any ==
    LET seen == {p \in GrpPkgs : ~Skipped(p)}
        kept == {p \in seen : Kept(p)}
        names == {group_name(p) : p \in kept}
    IN  IF seen \cap grpIn.outside # {}
        THEN [status |-> "PackageNotInWorkspace", named_groups |-> <<>>]
        ELSE IF ~(grpIn.with_excluded \/ kept # {})
        THEN [status |-> "EmptyWorkspace", named_groups |-> <<>>]
        ELSE [status |-> "Ok",
              named_groups |-> [g \in names |-> InOrder({p \in kept : group_name(p) = g})]]

\* get_group_packages
get_group_packages ==
    LET seen == {p \in GrpPkgs : ~Skipped(p)}
        kept == {p \in seen : Kept(p)}
        non_empty == \E p \in kept : group_name(p) # "excluded"
        names == {group_name(p) : p \in kept}
    IN  IF seen \cap grpIn.outside # {}
        THEN [status |-> "PackageNotInWorkspace", named_groups |-> <<>>]
        ELSE IF ~(grpIn.with_excluded \/ non_empty)
        THEN [status |-> "EmptyWorkspace", named_groups |-> <<>>]
        ELSE [status |-> "Ok",
              named_groups |-> [g \in names |-> InOrder({p \in kept : group_name(p) = g})]]

InitGroups ==
    /\ grpIn \in [exclude : SUBSET GrpPkgs, group : GroupSpecs, private : SUBSET {"c"},
                  outside : SUBSET {"b"}, all : BOOLEAN, filter : Filters,
                  with_excluded : BOOLEAN]
    /\ grpOut = <<>>
    /\ deps = {}
    /\ NotGrpIdle

\* one call of get_group_packages
ResolveGroups ==
    /\ grpOut = <<>>
    /\ grpOut' = get_group_packages
    /\ UNCHANGED <<deps, grpIn, notGrp>>

NextGroups == ResolveGroups

SpecGroups == InitGroups /\ [][NextGroups]_vars

\* the custom groups one of whose member globs matches p
MatchingGroups(p) == {g.name : g \in {h \in Range(grpIn.group) : p \in h.members}}

\* C4: a considered, non-excluded package that matches the member globs of
\* two distinct custom groups makes group resolution fail with an ambiguity
\* error; the package is never assigned to one of the matching groups
C4_Ambiguity ==
    (/\ grpOut # <<>>
     /\ grpIn.outside = {}
     /\ \E p \in GrpPkgs : /\ ~Skipped(p)
                           /\ p \notin grpIn.exclude
                           /\ Cardinality(MatchingGroups(p)) = 2)
    => grpOut.status = "PackageExistsInMultipleGroups"

(***************************************************************************)
(* utils/cargo.rs: the manifest editor (parse, change_versions,            *)
(* rename_packages).  A manifest is a sequence of lines, each with the     *)
(* line terminator that follows it; a line is a record of its shape, so    *)
(* that a regular expression of the source is a predicate on the shape.    *)
(***************************************************************************)
LF == "\n"

CRLF == "\r\n"

\* no terminator: only after the last line of a text
NoEol == ""

\* `[h]`, or `[h.name]` for the table of one dependency; the header
\* "target.dependencies" stands for `[target.'cfg(unix)'.dependencies]`
Hdr(h, name) == [t |-> "hdr", h |-> h, name |-> name]

\* `key = "val"`: sp is the text up to the opening quote without the key,
\* q the quote character, c the text after the closing quote
KV(key, sp, q, val, c) ==
    [t |-> "kv", key |-> key, sp |-> sp, q |-> q, val |-> val, c |-> c]

\* a field `k = "v"` of an inline table (`workspace = true` has v = "true")
F(k, v) == [k |-> k, q |-> "\"", v |-> v]

\* `key = { fields }`, c the text after the closing brace
Obj(key, sp, fields, c) ==
    [t |-> "obj", key |-> key, sp |-> sp, fields |-> fields, c |-> c]

\* `key.workspace = true`
Dot(key) == [t |-> "dot", key |-> key]

\* `workspace = true`
WsKey == [t |-> "ws"]

\* any other line; Text("") is the empty line
Text(s) == [t |-> "text", s |-> s]

\* Display for Version and the requirement strings VersionReq::parse reads
VerStr(v) ==
    CASE v = V(1, 0, 0) -> "1.0.0"
      [] v = V(1, 0, 1) -> "1.0.1"
      [] v = V(2, 0, 0) -> "2.0.0"

\* format!("={}", version)
ExactStr(v) ==
    CASE v = V(1, 0, 0) -> "=1.0.0"
      [] v = V(1, 0, 1) -> "=1.0.1"
      [] v = V(2, 0, 0) -> "=2.0.0"

ParseReq(s) ==
    CASE s = "*"      -> ReqAny
      [] s = "1.0.0"  -> ReqCaret100
      [] s = "1.0.1"  -> [op |-> "^", v |-> V(1, 0, 1)]
      [] s = "2.0.0"  -> [op |-> "^", v |-> V(2, 0, 0)]
      [] s = "=1.0.0" -> [op |-> "=", v |-> V(1, 0, 0)]
      [] s = "=1.0.1" -> [op |-> "=", v |-> V(1, 0, 1)]
      [] s = "=2.0.0" -> [op |-> "=", v |-> V(2, 0, 0)]

\* which of the table regular expressions matches a header line
TableKind(l) ==
    CASE l.h \in {"package", "workspace.package"} -> "PACKAGE_TABLE"
      [] l.h \in {"dependencies", "target.dependencies", "workspace.dependencies"}
            /\ l.name = ""                         -> "DEP_TABLE"
      [] l.h \in {"dependencies", "workspace.dependencies"} /\ l.name # ""
                                                    -> "DEP_ENTRY"
      [] l.h \in {"build-dependencies", "target.build-dependencies"} /\ l.name = ""
                                                    -> "BUILD_DEP_TABLE"
      [] l.h = "build-dependencies" /\ l.name # "" -> "BUILD_DEP_ENTRY"
      [] l.h \in {"dev-dependencies", "target.dev-dependencies"} /\ l.name = ""
                                                    -> "DEV_DEP_TABLE"
      [] l.h = "dev-dependencies" /\ l.name # ""   -> "DEV_DEP_ENTRY"
      [] OTHER -> "none"

\* NAME, VERSION, PACKAGE: a quoted value under the given key
IsKV(l, key) == l.t = "kv" /\ l.key = key

\* the position of the last field k of an inline table, 0 if there is none
FieldPos(l, k) ==
    LET S == {i \in DOMAIN l.fields : l.fields[i].k = k}
    IN  IF S = {} THEN 0 ELSE CHOOSE i \in S : \A j \in S : j <= i

AddField(l, k, v) == [l EXCEPT !.fields = Append(@, F(k, v))]

\* (mutant) edit_version without the test of the old requirement
edit_version_always(old, key, versions, exact) ==
    IF key \notin DOMAIN versions THEN old
    ELSE IF exact THEN ExactStr(versions[key])
    ELSE VerStr(versions[key])

\* the requirement edit_version leaves in place of `old`
edit_version(old, key, versions, exact) ==
    IF key \notin DOMAIN versions THEN old
    ELSE IF exact THEN ExactStr(versions[key])
    ELSE IF ~Matches(ParseReq(old), versions[key]) THEN VerStr(versions[key])
    ELSE old

\* rename_dep
rename_dep(old, renames) == IF old \in DOMAIN renames THEN renames[old] ELSE old

\* (mutant) the package line is written anew: what follows the value is lost
package_f_plain(l, in) ==
    IF in.pkg_name \notin DOMAIN in.edits THEN l
    ELSE IF in.mode = "version" /\ IsKV(l, "version")
    THEN [l EXCEPT !.val = VerStr(in.edits[in.pkg_name]), !.c = ""]
    ELSE IF in.mode = "rename" /\ IsKV(l, "name")
    THEN [l EXCEPT !.val = in.edits[in.pkg_name], !.c = ""]
    ELSE l

\* the closures of change_versions (mode "version") and of rename_packages
\* (mode "rename"); `in` holds the call's arguments
package_f(l, in) ==
    IF in.pkg_name \notin DOMAIN in.edits THEN l
    ELSE IF in.mode = "version" /\ IsKV(l, "version")
    THEN [l EXCEPT !.val = VerStr(in.edits[in.pkg_name])]
    ELSE IF in.mode = "rename" /\ IsKV(l, "name")
    THEN [l EXCEPT !.val = in.edits[in.pkg_name]]
    ELSE l

\* the line that replaces l in a dependency table, and the names it reports
\* as inherited
dependencies_f(l, in) ==
    LET vp == IF l.t = "obj" THEN FieldPos(l, "version") ELSE 0
        pp == IF l.t = "obj" THEN FieldPos(l, "package") ELSE 0
        wp == IF l.t = "obj" THEN FieldPos(l, "workspace") ELSE 0
        keep == [line |-> l, inh |-> {}]
        put(x) == [line |-> x, inh |-> {}]
    IN  IF in.mode = "version"
        THEN IF l.t = "dot" \/ wp > 0 THEN [line |-> l, inh |-> {l.key}]
             ELSE IF l.t = "kv"
             THEN put([l EXCEPT !.val = edit_version(@, l.key, in.edits, in.exact)])
             ELSE IF vp > 0 /\ pp > 0
             THEN put([l EXCEPT !.fields[vp].v =
                         edit_version(@, l.fields[pp].v, in.edits, in.exact)])
             ELSE IF vp > 0
             THEN put([l EXCEPT !.fields[vp].v =
                         edit_version(@, l.key, in.edits, in.exact)])
             ELSE IF l.t = "obj" /\ l.key \in DOMAIN in.edits
             THEN put(AddField(l, "version",
                               IF in.exact THEN ExactStr(in.edits[l.key])
                               ELSE VerStr(in.edits[l.key])))
             ELSE keep
        ELSE IF l.t = "kv"
             THEN IF l.key \in DOMAIN in.edits
                  THEN put(Obj(l.key, l.sp,
                               <<[k |-> "version", q |-> l.q, v |-> l.val],
                                 F("package", in.edits[l.key])>>, l.c))
                  ELSE keep
             ELSE IF pp > 0
             THEN put([l EXCEPT !.fields[pp].v = rename_dep(@, in.edits)])
             ELSE IF l.t = "obj" /\ l.key \in DOMAIN in.edits /\ wp = 0
             THEN put(AddField(l, "package", in.edits[l.key]))
             ELSE keep

\* (mutant) a dependency_entries_f that does not read the `package` line
entries_ignore_alias(l, in) ==
    IF in.mode = "version"
    THEN IF l.t = "ws" THEN [inherits |-> TRUE, new_dep |-> <<>>, meta |-> FALSE]
         ELSE [inherits |-> FALSE, new_dep |-> <<>>, meta |-> IsKV(l, "version")]
    ELSE [inherits |-> FALSE, new_dep |-> <<>>, meta |-> IsKV(l, "package")]

\* a mutation of dependency_entries_f: `workspace = true` is not recognised
entries_ignore_workspace(l, in) ==
    [inherits |-> FALSE, new_dep |-> <<>>,
     meta |-> IsKV(l, IF in.mode = "version" THEN "version" ELSE "package")]

\* what a line of a dependency's own table tells: (inherits, new_dep) and
\* whether the line is kept as the version (or package) line
dependency_entries_f(l, in) ==
    IF in.mode = "version"
    THEN IF l.t = "ws" THEN [inherits |-> TRUE, new_dep |-> <<>>, meta |-> FALSE]
         ELSE IF IsKV(l, "package")
         THEN [inherits |-> FALSE, new_dep |-> <<l.val>>, meta |-> FALSE]
         ELSE [inherits |-> FALSE, new_dep |-> <<>>, meta |-> IsKV(l, "version")]
    ELSE [inherits |-> FALSE, new_dep |-> <<>>, meta |-> IsKV(l, "package")]

\* the end of a dependency's own table: st is the state of the scan
dependency_pkg_f(st, in) ==
    IF in.mode = "version"
    THEN IF st.inherits THEN [st EXCEPT !.inh = @ \cup {st.dep}]
         ELSE IF st.meta # <<>>
         THEN [st EXCEPT !.out[st.meta[1].i] =
                 [st.meta[1].line EXCEPT
                    !.val = edit_version(@, st.dep, in.edits, in.exact)]]
         ELSE IF st.dep \in DOMAIN in.edits
         THEN [st EXCEPT !.out =
                 Append(@, KV("version", " = ", "\"", VerStr(in.edits[st.dep]), ""))]
         ELSE st
    ELSE IF st.meta # <<>>
         THEN [st EXCEPT !.out[st.meta[1].i] =
                 [st.meta[1].line EXCEPT !.val = rename_dep(@, in.edits)]]
         ELSE IF st.dep \in DOMAIN in.edits
         THEN [st EXCEPT !.out =
                 Append(@, KV("package", " = ", "\"", in.edits[st.dep], ""))]
         ELSE st

\* (mutant) a scan that always takes dev-dependency tables into account
dev_deps_always(in) == TRUE

\* (mutant) a scan that never takes dev-dependency tables into account
dev_deps_never(in) == FALSE

\* the `dev_deps` argument of parse
dev_deps(in) == in.mode = "rename"

\* str::lines
Lines(doc) == [i \in DOMAIN doc |-> doc[i].line]

\* manifest.contains(CRLF)
ContainsCRLF(doc) == \E i \in DOMAIN doc : doc[i].eol = CRLF

\* a mutation of LineEnding: join with LF whatever the input holds
LineEndingLF(doc) == LF

\* the separator parse joins the lines with
LineEnding(doc) == IF ContainsCRLF(doc) THEN CRLF ELSE LF

\* [String]::join
Join(ls, sep) ==
    [i \in DOMAIN ls |-> [line |-> ls[i], eol |-> IF i < Len(ls) THEN sep ELSE NoEol]]

\* the state of the scan before the first line: Context::Beginning
ScanStart ==
    [ctx |-> "Beginning", dep |-> "", meta |-> <<>>, inherits |-> FALSE,
     out |-> <<>>, inh |-> {}, n |-> 0, origin |-> <<>>]

\* the body of the loop of parse, for one line
ScanLine(st, l, in) ==
    IF l.t = "hdr"
    THEN LET s1 == IF st.ctx = "DependencyEntry" THEN dependency_pkg_f(st, in) ELSE st
             k  == TableKind(l)
             c  == CASE k = "PACKAGE_TABLE" -> "Package"
                     [] k \in {"DEP_TABLE", "BUILD_DEP_TABLE"} -> "Dependencies"
                     [] k = "DEV_DEP_TABLE" ->
                           IF dev_deps(in) THEN "Dependencies" ELSE "DontCare"
                     [] k \in {"DEP_ENTRY", "BUILD_DEP_ENTRY"} -> "DependencyEntry"
                     [] k = "DEV_DEP_ENTRY" ->
                           IF dev_deps(in) THEN "DependencyEntry" ELSE "DontCare"
                     [] OTHER -> "DontCare"
         IN  [s1 EXCEPT !.ctx = c, !.dep = l.name, !.meta = <<>>,
                        !.inherits = FALSE, !.out = Append(@, l)]
    ELSE CASE st.ctx = "Package" ->
                [st EXCEPT !.out = Append(@, package_f(l, in))]
           [] st.ctx = "Dependencies" ->
                LET r == dependencies_f(l, in)
                IN  [st EXCEPT !.out = Append(@, r.line), !.inh = @ \cup r.inh]
           [] st.ctx = "DependencyEntry" ->
                LET r == dependency_entries_f(l, in)
                IN  [st EXCEPT
                       !.inherits = @ \/ r.inherits,
                       !.dep = IF r.new_dep # <<>> THEN r.new_dep[1] ELSE @,
                       !.meta = IF r.meta
                                THEN <<[i |-> Len(st.out) + 1, line |-> l]>>
                                ELSE @,
                       !.out = Append(@, l)]
           [] OTHER -> [st EXCEPT !.out = Append(@, l)]

\* book-keeping for the properties: `origin` tells for each line of
\* new_lines the input line it stands for, 0 for a line that was added;
\* r is the state after the step from st, `line` tells if a line was read
Track(st, r, line) ==
    [r EXCEPT !.n = IF line THEN st.n + 1 ELSE st.n,
              !.origin = st.origin
                         \o [k \in 1..(Len(r.out) - Len(st.out) - (IF line THEN 1 ELSE 0)) |-> 0]
                         \o (IF line THEN <<st.n + 1>> ELSE <<>>)]

RECURSIVE Scan(_, _, _)
Scan(ls, st, in) ==
    IF ls = <<>> THEN st
    ELSE Scan(Tail(ls), Track(st, ScanLine(st, Head(ls), in), TRUE), in)

\* parse: the new text and the names reported as inherited
parse(in) ==
    LET s1 == Scan(Lines(in.doc), ScanStart, in)
        s2 == IF s1.ctx = "DependencyEntry"
              THEN Track(s1, dependency_pkg_f(s1, in), FALSE) ELSE s1
    IN  [text |-> Join(s2.out, LineEnding(in.doc)), inherited |-> s2.inh,
         origin |-> s2.origin]

\* the most lines the first table of a modelled manifest holds under its header
MaxBody == 2

\* manifests of up to this many lines take every layout of line terminators
ShortDoc == 2

SeqsUpTo(S, n) == UNION {[1..k -> S] : k \in 0..n}

PkgBody ==
    {KV("name", " = ", "\"", "pkg", ""),
     KV("version", " = ", "\"", "1.0.0", ""),
     KV("version", "=", "'", "1.0.0", " # hello"),
     Text("")}

DepBody ==
    {KV("this", " = ", "\"", "1.0.0", ""),
     KV("this", " = ", "\"", "*", " # hello"),
     KV("other", " = ", "\"", "1.0.0", ""),
     Obj("this", " = ", <<F("path", "../"), F("version", "1.0.0")>>, ""),
     Obj("this", " = ", <<F("path", "../")>>, " # hello"),
     Obj("this", " = ", <<F("workspace", "true")>>, ""),
     Dot("this"),
     Obj("this2", " = ", <<F("version", "1.0.0"), F("package", "this")>>, ""),
     Obj("this2", " = ", <<F("package", "this"), F("version", "1.0.0")>>, ""),
     Obj("this2", " = ", <<F("path", "../"), F("package", "this")>>, "")}

\* the lines under the target-conditioned and the workspace dependency tables
TargetDepBody ==
    {KV("this", " = ", "\"", "1.0.0", ""),
     KV("this", " = ", "\"", "*", " # hello"),
     Obj("this", " = ", <<F("path", "../"), F("version", "1.0.0")>>, "")}

EntryBody ==
    {KV("path", " = ", "\"", "../", ""),
     KV("version", " = ", "\"", "1.0.0", ""),
     KV("package", " = ", "\"", "this", ""),
     WsKey}

OtherBody == {KV("version", " = ", "\"", "1.0.0", ""), Text("# note"), Text("")}

\* the first table of a manifest: lines before any header, or a header and
\* up to n lines of the shapes its kind of table holds
FirstTables(n) ==
    LET T(hs, body) == {h \o b : h \in hs, b \in SeqsUpTo(body, n)}
    IN  T({<<>>, <<Hdr("features", "")>>}, OtherBody)
        \cup T({<<Hdr("package", "")>>, <<Hdr("workspace.package", "")>>}, PkgBody)
        \cup T({<<Hdr("dependencies", "")>>, <<Hdr("dev-dependencies", "")>>}, DepBody)
        \cup T({<<Hdr("target.dependencies", "")>>, <<Hdr("target.dev-dependencies", "")>>,
                <<Hdr("workspace.dependencies", "")>>}, TargetDepBody)
        \cup T({<<Hdr("dependencies", "this")>>, <<Hdr("dependencies", "this2")>>,
                <<Hdr("dev-dependencies", "this")>>, <<Hdr("build-dependencies", "this2")>>,
                <<Hdr("workspace.dependencies", "this")>>}, EntryBody)

\* what follows the first table: nothing, or one more table
SecondTables ==
    {<<>>} \cup
    {<<h>> \o b :
        h \in {Hdr("package", ""), Hdr("build-dependencies", ""), Hdr("features", "")},
        b \in {<<>>, <<KV("version", " = ", "\"", "1.0.0", "")>>,
               <<KV("this", " = ", "\"", "1.0.0", "")>>}}

\* the terminators of the lines ls: a text ends with or without a
\* terminator, and an empty last line has one
Layouts(ls) ==
    IF Len(ls) <= ShortDoc
    THEN {e \in [DOMAIN ls -> {LF, CRLF, NoEol}] :
            \A i \in DOMAIN ls : e[i] = NoEol => i = Len(ls) /\ ls[i] # Text("")}
    ELSE {[i \in DOMAIN ls |->
             IF i < Len(ls) \/ ls[i] = Text("") THEN LF ELSE NoEol]}

\* the manifests whose first table holds up to n lines under its header
Manifests(n) ==
    UNION {{[i \in DOMAIN ls |-> [line |-> ls[i], eol |-> e[i]]] : e \in Layouts(ls)} :
              ls \in {a \o b : a \in FirstTables(n), b \in SecondTables}}

\* the arguments of change_versions: the edited package is "pkg"
VersionEdits ==
    {[doc |-> <<>>, mode |-> "version", pkg_name |-> "pkg", edits |-> x[1], exact |-> x[2]] :
        x \in {<<<<>>, FALSE>>,
               <<"pkg" :> V(1, 0, 1), FALSE>>,
               <<"this" :> V(1, 0, 1), FALSE>>,
               <<"this" :> V(2, 0, 0), FALSE>>,
               <<"this" :> V(1, 0, 1), TRUE>>,
               <<"this2" :> V(2, 0, 0), FALSE>>,
               <<("pkg" :> V(2, 0, 0)) @@ ("this" :> V(2, 0, 0)), FALSE>>}}

\* the arguments of rename_packages
RenameEdits ==
    {[doc |-> <<>>, mode |-> "rename", pkg_name |-> "pkg", edits |-> x, exact |-> FALSE] :
        x \in {<<>>, "this" :> "this3", "pkg" :> "pkg3"}}

InitManifest ==
    /\ deps = {}
    /\ \E d \in Manifests(MaxBody) :
          \/ \E a \in VersionEdits : manIn = [a EXCEPT !.doc = d]
          \/ \E a \in RenameEdits : manIn = [a EXCEPT !.doc = d]
    /\ manOut = <<>>
    /\ NotManIdle

\* change_versions (mode "version"), rename_packages (mode "rename")
change_versions ==
    /\ manOut = <<>>
    /\ manIn.mode = "version"
    /\ manOut' = parse(manIn)
    /\ UNCHANGED <<deps, manIn, notMan>>

rename_packages ==
    /\ manOut = <<>>
    /\ manIn.mode = "rename"
    /\ manOut' = parse(manIn)
    /\ UNCHANGED <<deps, manIn, notMan>>

NextManifest == change_versions \/ rename_packages

SpecManifest == InitManifest /\ [][NextManifest]_vars

\* the bytes of a text, as tokens: the empty line contributes nothing
RECURSIVE Bytes(_)
Bytes(doc) ==
    IF doc = <<>> THEN <<>>
    ELSE (IF Head(doc).line = Text("") THEN <<>> ELSE <<Head(doc).line>>)
         \o (IF Head(doc).eol = NoEol THEN <<>> ELSE <<[t |-> "eol", s |-> Head(doc).eol]>>)
         \o Bytes(Tail(doc))

\* the names a line offers to the edit map: the call's package for a
\* version or name line, a dependency's key, its `package` value, the name
\* in the header of its table
Mentions(l, in) ==
    CASE l.t = "hdr" -> {l.name}
      [] l.t = "dot" -> {l.key}
      [] l.t = "kv"  -> {l.key, l.val} \cup
                        (IF l.key \in {"version", "name"} THEN {in.pkg_name} ELSE {})
      [] l.t = "obj" -> {l.key} \cup {l.fields[i].v : i \in DOMAIN l.fields}
      [] OTHER -> {}

\* some entry of the edit map is applicable to some line of the document
Applicable(in) ==
    \E i \in DOMAIN in.doc : Mentions(in.doc[i].line, in) \cap DOMAIN in.edits # {}

\* the input with the last terminator removed and every other terminator
\* CRLF if the input holds a CRLF
Rejoined(doc) ==
    [i \in DOMAIN doc |->
        [line |-> doc[i].line,
         eol  |-> IF i = Len(doc) THEN NoEol
                  ELSE IF \E j \in DOMAIN doc : doc[j].eol = CRLF THEN CRLF ELSE LF]]

\* C5 (as stated): a rewrite with no applicable entry returns text that is
\* byte-identical to the input, final line terminator included.
C5_ByteIdentical ==
    (manOut # <<>> /\ ~Applicable(manIn))
    => Bytes(manOut.text) = Bytes(manIn.doc)

\* C5 (amended): a rewrite (change_versions or rename_packages) with no
\* applicable entry returns the lines of the input unchanged, without the
\* final line terminator and joined by CRLF if the input holds a CRLF and by
\* LF otherwise; the result is byte-identical to the input when the input
\* has no final terminator and one line-ending style.
C5_NoEditKeepsLines ==
    (manOut # <<>> /\ ~Applicable(manIn))
    => /\ Lines(manOut.text) = Lines(manIn.doc)
       /\ Bytes(manOut.text) = Bytes(Rejoined(manIn.doc))
       /\ ( /\ \A i \in DOMAIN manIn.doc : i = Len(manIn.doc) => manIn.doc[i].eol = NoEol
            /\ ~(\E i, j \in DOMAIN manIn.doc :
                    manIn.doc[i].eol = CRLF /\ manIn.doc[j].eol = LF)
            => Bytes(manOut.text) = Bytes(manIn.doc) )

\* C5 witness: a rename with a non-empty map none of whose entries applies, on
\* a two-line CRLF document that ends with a terminator.
C5_Witness ==
    /\ manOut # <<>>
    /\ manIn.mode = "rename"
    /\ DOMAIN manIn.edits # {}
    /\ ~Applicable(manIn)
    /\ Len(manIn.doc) = 2
    /\ \A i \in DOMAIN manIn.doc : manIn.doc[i].eol = CRLF
    /\ manIn.doc[2].line.t = "kv"

\* the header of the table that line i of ls lies in (0: before any header)
HeaderOf(ls, i) ==
    LET S == {j \in 1..(i - 1) : ls[j].t = "hdr"}
    IN  IF S = {} THEN 0 ELSE CHOOSE j \in S : \A k \in S : k <= j

\* the last line of the table whose header is line j
TableEnd(ls, j) ==
    LET S == {k \in (j + 1)..Len(ls) : ls[k].t = "hdr"}
    IN  IF S = {} THEN Len(ls) ELSE (CHOOSE k \in S : \A m \in S : k <= m) - 1

\* the workspace-inherited dependency entries of ls: the lines from..to, the
\* dependency's name, and whether the entry is a dev-dependency
InheritedEntries(ls) ==
    {[from |-> i, to |-> i, name |-> ls[i].key,
      dev |-> TableKind(ls[HeaderOf(ls, i)]) = "DEV_DEP_TABLE"] :
        i \in {i \in DOMAIN ls :
                 /\ ls[i].t = "dot" \/ (ls[i].t = "obj" /\ FieldPos(ls[i], "workspace") > 0)
                 /\ HeaderOf(ls, i) > 0
                 /\ TableKind(ls[HeaderOf(ls, i)]) \in
                       {"DEP_TABLE", "BUILD_DEP_TABLE", "DEV_DEP_TABLE"}}}
    \cup
    {[from |-> j, to |-> TableEnd(ls, j),
      name |-> LET P == {k \in (j + 1)..TableEnd(ls, j) : IsKV(ls[k], "package")}
               IN  IF P = {} THEN ls[j].name
                   ELSE ls[CHOOSE k \in P : \A m \in P : m <= k].val,
      dev |-> TableKind(ls[j]) = "DEV_DEP_ENTRY"] :
        j \in {j \in DOMAIN ls :
                 /\ ls[j].t = "hdr"
                 /\ TableKind(ls[j]) \in {"DEP_ENTRY", "BUILD_DEP_ENTRY", "DEV_DEP_ENTRY"}
                 /\ \E k \in (j + 1)..TableEnd(ls, j) : ls[k] = WsKey}}

\* the lines of entry e are in the output as they are in the input, and no
\* line is added to them
EntryUnchanged(e, ls, out) ==
    /\ Len(out) >= e.to
    /\ SubSeq(out, e.from, e.to) = SubSeq(ls, e.from, e.to)
    /\ IF e.to = Len(ls) THEN Len(out) = e.to
       ELSE ls[e.to + 1].t = "hdr" => out[e.to + 1] = ls[e.to + 1]

\* C6 (as stated): a version edit leaves every workspace-inherited entry
\* unchanged and the inherited set always holds the entry's name.
C6_AlwaysReported ==
    (manOut # <<>> /\ manIn.mode = "version")
    => \A e \in InheritedEntries(Lines(manIn.doc)) :
          /\ EntryUnchanged(e, Lines(manIn.doc), Lines(manOut.text))
          /\ e.name \in manOut.inherited

\* C6 (amended): a version edit leaves every workspace-inherited entry
\* unchanged, whatever the version map holds; the inherited set holds exactly
\* the names of the inherited entries outside the dev-dependency tables
\* (for a dependency's own table: its `package` value if it has one, else the
\* name in its header).  Inherited dev-dependencies are not reported.
C6_InheritedUntouched ==
    (manOut # <<>> /\ manIn.mode = "version")
    => /\ \A e \in InheritedEntries(Lines(manIn.doc)) :
             EntryUnchanged(e, Lines(manIn.doc), Lines(manOut.text))
       /\ manOut.inherited =
             {e.name : e \in {x \in InheritedEntries(Lines(manIn.doc)) : ~x.dev}}

\* C6 witness: the table of dependency "this2" names package "this", holds
\* `workspace = true`, and the version map has an entry for "this".
C6_Witness ==
    /\ manOut # <<>>
    /\ manIn.mode = "version"
    /\ "this" \in DOMAIN manIn.edits
    /\ Len(manIn.doc) >= 3
    /\ manIn.doc[1].line = Hdr("dependencies", "this2")
    /\ {manIn.doc[2].line, manIn.doc[3].line} =
          {WsKey, KV("package", " = ", "\"", "this", "")}
    /\ manOut.inherited = {"this"}

(***************************************************************************)
(* publish.rs: Publish::run, with is_published of utils/cargo.rs.  The     *)
(* run is cut at its calls to the outside: the index query, the publish    *)
(* collaborator, each poll of check_index.                                 *)
(***************************************************************************)
PubPkgs == {"a", "b", "c"}

\* the most runs of the command over one registry
MaxRuns == 2

\* the declarations a modelled workspace may hold: normal dependencies
\* b -> a, c -> a, c -> b and the dev-dependency a -> c
PubEdges ==
    {VerEdge(<<"b", "a">>, "normal", ReqAny), VerEdge(<<"c", "a">>, "normal", ReqAny),
     VerEdge(<<"c", "b">>, "normal", ReqAny), VerEdge(<<"a", "c">>, "dev", ReqAny)}

\* stderr of `cargo publish`: does it contain "Uploading", "error:"
Stderrs == [uploading : BOOLEAN, error : BOOLEAN]

NoStderr == [uploading |-> FALSE, error |-> FALSE, none |-> TRUE]

\* a mutation of PublishFailed: only the missing success marker is a failure
OnlyMissingMarker(stderr) == ~stderr.uploading

\* !stderr.contains("Uploading") || stderr.contains("error:")
PublishFailed(stderr) == ~stderr.uploading \/ stderr.error

\* a mutation of is_published: the answer is always "not published"
never_published(p, c, r) == [found |-> FALSE, cache |-> IF p \in c THEN c ELSE r]

\* is_published over the local index c and the registry r: look in the
\* cache, update it if the version is not there, look again
is_published(p, c, r) ==
    IF p \in c THEN [found |-> TRUE, cache |-> c]
    ELSE [found |-> p \in r, cache |-> r]

\* a mutation of PublishOrder: the candidates as listed, without dag()
CandidateOrder(cfg) == SelectSeq(cfg.pkgs, LAMBDA p : p \notin cfg.private)

\* dag(&pkgs) without the private packages
PublishOrder(cfg) == SelectSeq(dag(cfg.pkgs).seq, LAMBDA p : p \notin cfg.private)

Result(kind, name) == [kind |-> kind, name |-> name]

\* a run before its first step: nothing uploaded, polled or tagged; `start`
\* is the registry at that time, `before` the uploads of the earlier runs
NewRun(n, r, before) ==
    [run |-> n, before |-> before, order |-> <<>>, pos |-> 1, pc |-> "start",
     uploads |-> <<>>, observed |-> {}, polled |-> {}, tagged |-> <<>>,
     stderr |-> NoStderr, result |-> Result("running", ""), start |-> r]

InitPublish ==
    /\ deps \in SUBSET PubEdges
    /\ \E ps \in Perms(PubPkgs), priv \in {{}, {"b"}} :
          pubCfg = [pkgs |-> ps, private |-> priv]
    /\ remote \in {{}, {"a"}}
    /\ pending = {}
    /\ cache = {}
    /\ pub = NewRun(1, remote, <<>>)
    /\ NotPubIdle

\* the package the run is at
Cur == pub.order[pub.pos]

\* the run up to its loop: the candidates in dag order, the private ones
\* filtered out
Start ==
    /\ pub.pc = "start"
    /\ pub' = [pub EXCEPT !.order = PublishOrder(pubCfg), !.pc = "check"]
    /\ UNCHANGED <<deps, pubCfg, remote, pending, cache, notPub>>

\* is_published at the head of an iteration: skip the package, or go on
Check ==
    /\ pub.pc = "check" /\ pub.pos <= Len(pub.order)
    /\ LET r == is_published(Cur, cache, remote)
       IN  /\ cache' = r.cache
           /\ pub' = IF r.found
                     THEN [pub EXCEPT !.observed = @ \cup {Cur}, !.pos = @ + 1]
                     ELSE [pub EXCEPT !.pc = "publish"]
    /\ UNCHANGED <<deps, pubCfg, remote, pending, notPub>>

\* `cargo publish` and the test of its stderr
CargoPublish ==
    /\ pub.pc = "publish"
    /\ \E stderr \in Stderrs :
          /\ pub' = [pub EXCEPT
                       !.uploads = Append(@, Cur),
                       !.stderr = stderr,
                       !.pc = IF PublishFailed(stderr) THEN "error" ELSE "poll",
                       !.result = IF PublishFailed(stderr)
                                  THEN Result("Publish", Cur) ELSE @]
          /\ pending' = IF stderr.uploading /\ ~stderr.error
                        THEN pending \cup {Cur} ELSE pending
    /\ UNCHANGED <<deps, pubCfg, remote, cache, notPub>>

\* one poll of check_index; a poll that finds the version ends check_index
\* and the iteration goes on to individual_tag
Poll ==
    /\ pub.pc = "poll"
    /\ LET r == is_published(Cur, cache, remote)
       IN  /\ cache' = r.cache
           /\ IF r.found
              THEN pub' = [pub EXCEPT !.polled = @ \cup {Cur},
                                      !.observed = @ \cup {Cur},
                                      !.tagged = Append(@, Cur),
                                      !.pos = @ + 1, !.pc = "check"]
              ELSE \E timeout \in BOOLEAN :
                      pub' = [pub EXCEPT
                                !.polled = @ \cup {Cur},
                                !.pc = IF timeout THEN "error" ELSE @,
                                !.result = IF timeout
                                           THEN Result("PublishTimeout", "") ELSE @]
    /\ UNCHANGED <<deps, pubCfg, remote, pending, notPub>>

\* index.update()? fails inside is_published
IndexFails ==
    /\ pub.pc \in {"check", "poll"} /\ pub.pos <= Len(pub.order)
    /\ pub' = [pub EXCEPT !.pc = "error", !.result = Result("Index", "")]
    /\ UNCHANGED <<deps, pubCfg, remote, pending, cache, notPub>>

\* the end of the loop over the order
Finish ==
    /\ pub.pc = "check" /\ pub.pos > Len(pub.order)
    /\ pub' = [pub EXCEPT !.pc = "done", !.result = Result("Ok", "")]
    /\ UNCHANGED <<deps, pubCfg, remote, pending, cache, notPub>>

\* the registry shows an upload it accepted
BecomeVisible ==
    /\ \E p \in pending :
          /\ remote' = remote \cup {p}
          /\ pending' = pending \ {p}
    /\ UNCHANGED <<deps, pubCfg, cache, pub, notPub>>

\* the command is run again after it has returned
Rerun ==
    /\ pub.pc \in {"error", "done"}
    /\ pub.run < MaxRuns
    /\ pub' = NewRun(pub.run + 1, remote, pub.before \o pub.uploads)
    /\ UNCHANGED <<deps, pubCfg, remote, pending, cache, notPub>>

NextPublish ==
    Start \/ Check \/ CargoPublish \/ Poll \/ IndexFails \/ Finish \/ BecomeVisible \/ Rerun

SpecPublish == InitPublish /\ [][NextPublish]_vars

\* the step invokes the publish collaborator
Uploads == Len(pub'.uploads) = Len(pub.uploads) + 1

\* C7: the publish collaborator is invoked for a package only when every
\* package before it in the filtered order has been observed in the index
\* (by the first is_published or by a poll of check_index) and is visible
\* in the registry; so are its normal and build dependencies in the order.
C7_PublishAfterPredecessors ==
    [][Uploads =>
         /\ \A j \in 1..(pub.pos - 1) :
               pub.order[j] \in pub.observed /\ pub.order[j] \in remote
         /\ \A e \in deps :
               (e.from = Cur /\ e.kind \in {"normal", "build"} /\ Contains(pub.order, e.to))
               => e.to \in pub.observed /\ e.to \in remote]_vars

\* C7 witness: b depends on a and is listed first; a was uploaded, seen by
\* a poll, and then b was uploaded.
C7_Witness ==
    /\ pubCfg.pkgs = <<"b", "a", "c">>
    /\ VerEdge(<<"b", "a">>, "normal", ReqAny) \in deps
    /\ pub.uploads = <<"a", "b">>
    /\ "a" \in pub.polled \cap pub.observed

\* C8: the publish collaborator is invoked only for a package that the index,
\* updated by the check just before, does not hold; no package visible in the
\* registry when a run starts is uploaded in that run, so a run after a
\* failed one skips what the failed one published.
C8_NoRepublish ==
    /\ [][Uploads => Cur \notin cache /\ Cur \notin pub.observed]_vars
    /\ [](pub # <<>> => \A i \in DOMAIN pub.uploads : pub.uploads[i] \notin pub.start)

\* C8 witness: the first run uploaded a, then failed on b; the second run
\* skipped a and uploaded b only.
C8_Witness ==
    /\ pub.run = 2
    /\ pub.before = <<"a", "b">>
    /\ "a" \in pub.start
    /\ "a" \in pub.observed
    /\ pub.uploads = <<"b">>

\* C9: when stderr lacks "Uploading" or contains "error:", the run returns
\* the publish error with the package's name; that package is neither polled
\* nor tagged, no later package of the order is checked, uploaded, polled or
\* tagged, and the run takes no further step.
C9_PublishFailureStops ==
    /\ [][(Uploads /\ (~pub'.stderr.uploading \/ pub'.stderr.error))
          => pub'.pc = "error" /\ pub'.result = Result("Publish", Cur)]_vars
    /\ []((pub # <<>> /\ pub.result.kind = "Publish") =>
            /\ pub.pc = "error"
            /\ pub.result.name = Cur
            /\ pub.uploads[Len(pub.uploads)] = Cur
            /\ Cur \notin pub.polled \cup Range(pub.tagged)
            /\ \A j \in (pub.pos + 1)..Len(pub.order) :
                  pub.order[j] \notin
                     Range(pub.uploads) \cup pub.polled \cup Range(pub.tagged)
                     \cup pub.observed)
    /\ [][pub.pc = "error" => (pub' = pub \/ pub'.pc = "start")]_vars

\* C9 witness: a was published and tagged, then stderr for b held both
\* markers; c is left.
C9_Witness ==
    /\ pub.order = <<"a", "b", "c">>
    /\ pub.tagged = <<"a">>
    /\ pub.stderr = [uploading |-> TRUE, error |-> TRUE]
    /\ pub.result = Result("Publish", "b")

(***************************************************************************)
(* utils/cargo.rs: check_index, with time in whole seconds.  The call is   *)
(* cut at each poll (is_published) and each sleep; the registry may start  *)
(* to show the version at any moment.                                      *)
(***************************************************************************)
\* Duration::from_secs(300), the timeout
Timeout == 300

\* Duration::from_secs(2), the sleep between polls
SleepTime == 2

\* the most seconds a poll takes, and a sleep oversleeps
MaxDelay == 1

\* a mutation of TimedOut: the timeout is reached at 300 seconds already
TimedOutAtLimit(elapsed) == Timeout <= elapsed

\* timeout < now.elapsed()
TimedOut(elapsed) == Timeout < elapsed

InitPoll ==
    /\ deps = {}
    /\ \E v \in BOOLEAN :
          chk = [pc |-> "poll", elapsed |-> 0, polls |-> 0, sleeps |-> 0,
                 logged |-> FALSE, visible |-> v, found |-> FALSE,
                 result |-> "running"]
    /\ NotChkIdle

\* is_published returns, and the branch on its answer
PollIndex ==
    /\ chk.pc = "poll"
    /\ \E d \in 0..MaxDelay :
          LET t == chk.elapsed + d
          IN  chk' = IF chk.visible
                     THEN [chk EXCEPT !.elapsed = t, !.polls = @ + 1, !.found = TRUE,
                                      !.pc = "done", !.result = "Ok"]
                     ELSE IF TimedOut(t)
                     THEN [chk EXCEPT !.elapsed = t, !.polls = @ + 1, !.found = FALSE,
                                      !.pc = "done", !.result = "PublishTimeout"]
                     ELSE [chk EXCEPT !.elapsed = t, !.polls = @ + 1, !.found = FALSE,
                                      !.logged = TRUE, !.pc = "sleep"]
    /\ UNCHANGED <<deps, notChk>>

\* is_published returns an error (index.update()?), which check_index returns
PollFails ==
    /\ chk.pc = "poll"
    /\ chk' = [chk EXCEPT !.polls = @ + 1, !.found = FALSE,
                          !.pc = "done", !.result = "IndexError"]
    /\ UNCHANGED <<deps, notChk>>

\* sleep(sleep_time)
Sleep ==
    /\ chk.pc = "sleep"
    /\ \E d \in 0..MaxDelay :
          chk' = [chk EXCEPT !.elapsed = @ + SleepTime + d, !.sleeps = @ + 1,
                             !.pc = "poll"]
    /\ UNCHANGED <<deps, notChk>>

\* the registry starts to show the version
Appear ==
    /\ chk.pc # "done"
    /\ ~chk.visible
    /\ chk' = [chk EXCEPT !.visible = TRUE]
    /\ UNCHANGED <<deps, notChk>>

NextPoll == PollIndex \/ PollFails \/ Sleep \/ Appear

SpecPoll == InitPoll /\ [][NextPoll]_vars

\* C10: check_index ends within a bounded number of polls; a poll that finds
\* the version ends it with Ok, without a sleep after it; a poll that does
\* not find it ends it with PublishTimeout if more than 300 seconds have
\* passed since the call began and is followed by one sleep of 2 seconds
\* otherwise; a timeout is reported only after at least one poll.
C10_CheckIndex ==
    /\ [](chk # <<>> =>
            /\ chk.polls <= (Timeout \div SleepTime) + 2
            /\ chk.pc \in {"poll", "sleep", "done"}
            /\ chk.sleeps = IF chk.pc = "poll" THEN chk.polls ELSE chk.polls - 1
            /\ chk.elapsed >= SleepTime * chk.sleeps
            /\ chk.result = "Ok" => chk.found /\ chk.pc = "done"
            /\ chk.result = "PublishTimeout" =>
                  ~chk.found /\ chk.pc = "done" /\ chk.polls >= 1 /\ chk.elapsed > 300)
    /\ [][chk'.polls = chk.polls + 1 /\ chk'.result # "IndexError" =>
            /\ chk.visible => chk'.result = "Ok"
            /\ ~chk.visible /\ chk'.elapsed > 300 => chk'.result = "PublishTimeout"
            /\ ~chk.visible /\ chk'.elapsed <= 300 =>
                  chk'.pc = "sleep" /\ chk'.result = "running"]_vars
    /\ [][chk'.sleeps # chk.sleeps =>
            ~chk.found /\ chk'.elapsed >= chk.elapsed + 2 /\ chk'.pc = "poll"]_vars

\* C10 witness: the version never showed; the poll at exactly 300 seconds
\* was followed by a sleep, and the next poll reported the timeout.
C10_Witness ==
    /\ chk.result = "PublishTimeout"
    /\ chk.elapsed = 302
    /\ chk.polls = 152
    /\ chk.sleeps = 151

(***************************************************************************)
(* utils/version.rs: do_versioning from the alert on: alert_unversioned,   *)
(* confirm_versions, the manifest writes, `cargo update`, git.commit.      *)
(* The run is cut at each prompt and at each call to the outside.          *)
(***************************************************************************)
AppPkgs == {"a", "b", "c"}

\* a mutation of Create: the answer to the confirmation is not looked at
CreateAlways(yes, answer) == TRUE

\* confirm_versions: `self.yes || Confirm::...interact_on(..)`
Create(yes, answer) == yes \/ answer

\* the keys of `deps` for package p: its dependencies that have a path and
\* a new version
PlannedDeps(p) == {e \in deps : e.from = p /\ e \notin app.nopath /\ e.to \in app.plan}

\* the packages of metadata.packages whose manifest is written
NeedsWrite(p) == p \in app.plan \/ PlannedDeps(p) # {}

InitApply ==
    /\ deps \in SUBSET PubEdges
    /\ \E plan \in SUBSET AppPkgs \ {{}}, yes \in BOOLEAN, unv \in BOOLEAN,
          np \in SUBSET {VerEdge(<<"b", "a">>, "normal", ReqAny)} :
          app = [pc |-> "alert", yes |-> yes, unversioned |-> unv, plan |-> plan,
                 nopath |-> np, declined |-> FALSE, accepted |-> FALSE,
                 todo |-> InOrder(AppPkgs), writes |-> <<>>, updates |-> <<>>,
                 committed |-> FALSE, result |-> "running"]
    /\ NotAppIdle

\* alert_unversioned: nothing to ask, or one round of its menu
Alert ==
    /\ app.pc = "alert"
    /\ IF ~app.unversioned \/ app.yes
       THEN app' = [app EXCEPT !.pc = "confirm"]
       ELSE \E choice \in {"review", "auto", "abort"}, sure \in BOOLEAN :
               app' = CASE choice = "abort" ->
                             [app EXCEPT !.pc = "exited", !.declined = TRUE,
                                         !.result = "exit(0)"]
                        [] choice = "auto" /\ sure -> [app EXCEPT !.pc = "confirm"]
                        [] OTHER -> app
    /\ UNCHANGED <<deps, notApp>>

\* confirm_versions
Confirm ==
    /\ app.pc = "confirm"
    /\ \E answer \in BOOLEAN :
          app' = IF Create(app.yes, answer)
                 THEN [app EXCEPT !.pc = "write", !.accepted = TRUE,
                                  !.declined = ~(app.yes \/ answer)]
                 ELSE [app EXCEPT !.pc = "exited", !.declined = TRUE,
                                  !.result = "exit(0)"]
    /\ UNCHANGED <<deps, notApp>>

\* one round of `for p in &metadata.packages`: the manifest of p is written
\* if p or one of its path dependencies has a new version
WriteManifest ==
    /\ app.pc = "write" /\ app.todo # <<>>
    /\ LET p == Head(app.todo)
       IN  app' = [app EXCEPT !.todo = Tail(@),
                              !.writes = IF NeedsWrite(p) THEN Append(@, p) ELSE @]
    /\ UNCHANGED <<deps, notApp>>

\* the write of the workspace root manifest
WriteRoot ==
    /\ app.pc = "write" /\ app.todo = <<>>
    /\ app' = [app EXCEPT !.writes = Append(@, "<workspace>"), !.pc = "update",
                          !.todo = InOrder(app.plan)]
    /\ UNCHANGED <<deps, notApp>>

\* fs::read_to_string or fs::write fails
WriteFails ==
    /\ app.pc = "write"
    /\ app' = [app EXCEPT !.pc = "error", !.result = "Io"]
    /\ UNCHANGED <<deps, notApp>>

\* `cargo update -p` for one package of the plan
CargoUpdate ==
    /\ app.pc = "update" /\ app.todo # <<>>
    /\ \E error \in BOOLEAN :
          app' = IF error
                 THEN [app EXCEPT !.updates = Append(@, Head(app.todo)),
                                  !.pc = "error", !.result = "Update"]
                 ELSE [app EXCEPT !.updates = Append(@, Head(app.todo)),
                                  !.todo = Tail(@)]
    /\ UNCHANGED <<deps, notApp>>

\* self.git.commit: the commit, the tags and the push
GitCommit ==
    /\ app.pc = "update" /\ app.todo = <<>>
    /\ \E ok \in BOOLEAN :
          app' = [app EXCEPT !.committed = TRUE, !.pc = IF ok THEN "done" ELSE "error",
                             !.result = IF ok THEN "Ok" ELSE "Git"]
    /\ UNCHANGED <<deps, notApp>>

NextApply ==
    Alert \/ Confirm \/ WriteManifest \/ WriteRoot \/ WriteFails \/ CargoUpdate \/ GitCommit

SpecApply == InitApply /\ [][NextApply]_vars

\* C11: when the confirmation is declined, or Abort is chosen in the alert,
\* the run ends with no manifest written, no `cargo update` invoked and
\* git.commit not called; every write, update and commit comes after an
\* accepted confirmation.
C11_NothingBeforeConfirm ==
    app # <<>> =>
       /\ app.declined => app.pc = "exited" /\ app.result = "exit(0)"
                          /\ app.writes = <<>> /\ app.updates = <<>> /\ ~app.committed
       /\ (app.writes # <<>> \/ app.updates # <<>> \/ app.committed)
             => app.accepted /\ ~app.declined

\* C11 witness: the alert was shown and passed, then the plan was declined.
C11_Witness ==
    /\ app.unversioned /\ ~app.yes
    /\ app.pc = "exited"
    /\ app.declined
    /\ app.writes = <<>>

\* C12: core (a, 1.0.0, no dependencies) and cli (b, 1.0.0, a normal
\* dependency on core with requirement "*"): when only core was changed and
\* it is bumped to 1.0.1, the finished plan holds an entry for cli, and the
\* alert lists the edge cli -> core (cli follows the workspace version or
\* the version of its group: no prompt can keep its version).
C12_CliPulledIn ==
    (/\ verPc = "planned"
     /\ changed0 = {"a"}
     /\ VerEdge(<<"b", "a">>, "normal", ReqAny) \in deps
     /\ \E e \in PlanEntries : e.pkg = "a" /\ e.old = V(1, 0, 0) /\ e.new = V(1, 0, 1)
     /\ ws["b"].group # "excluded" /\ ~ws["b"].independent)
    => /\ "b" \in Planned
       /\ \E u \in unversioned_deps : u.from = "b" /\ u.to = "a"

\* C14: the alert lists exactly the edges with an unconstrained requirement
\* whose target has an entry in the plan with a new version other than
\* 0.0.0, whatever the new version of the source is.
C14_AlertByTarget ==
    verPc = "planned" =>
       {[from |-> u.from, to |-> u.to] : u \in unversioned_deps}
          = {[from |-> x.from, to |-> x.to] :
               x \in {y \in deps : /\ y.req \in {ReqAny, ReqGe000}
                                   /\ y.to \in Planned
                                   /\ NewVersionOf(y.to) # V(0, 0, 0)}}

(***************************************************************************)
(* Properties of single edits of the manifest editor                       *)
(***************************************************************************)
\* the line of the output that stands for line i of the input
OutLine(i) == manOut.text[CHOOSE k \in DOMAIN manOut.origin : manOut.origin[k] = i].line

\* line i of ls lies in a table (not a dependency's own table) whose header
\* is one of hs
InTable(ls, i, hs) ==
    /\ HeaderOf(ls, i) > 0
    /\ ls[HeaderOf(ls, i)].name = ""
    /\ ls[HeaderOf(ls, i)].h \in hs

\* the dependency tables a version edit looks at
VersionDepTables ==
    {"dependencies", "target.dependencies", "workspace.dependencies",
     "build-dependencies", "target.build-dependencies"}

\* the dependency tables: plain, target-conditioned, workspace, build, dev
AllDepTables == VersionDepTables \cup {"dev-dependencies", "target.dev-dependencies"}

\* the headers j of the own tables of dependencies that a version edit
\* looks at
VersionDepEntries(ls) ==
    {j \in DOMAIN ls : /\ ls[j].t = "hdr"
                       /\ ls[j].name # ""
                       /\ ls[j].h \in {"dependencies", "workspace.dependencies",
                                       "build-dependencies"}}

\* the last line with the key `key` in the table whose header is line j, 0
\* if there is none
LastKey(ls, j, key) ==
    LET S == {k \in (j + 1)..TableEnd(ls, j) : IsKV(ls[k], key)}
    IN  IF S = {} THEN 0 ELSE CHOOSE k \in S : \A m \in S : m <= k

\* the package a dependency's own table stands for
EntryName(ls, j) ==
    IF LastKey(ls, j, "package") = 0 THEN ls[j].name ELSE ls[LastKey(ls, j, "package")].val

\* C13: a version edit (not exact) with an entry V for a dependency gives
\* the dependency's entry the requirement V: a single-line inline table
\* without a version field gains `version = "V"`, a bare string "*" becomes
\* "V", and a dependency's own table without a version line gains the line
\* `version = "V"`.
C13_InjectsVersion ==
    (manOut # <<>> /\ manIn.mode = "version" /\ ~manIn.exact)
    => LET ls == Lines(manIn.doc)
           out == Lines(manOut.text)
       IN  /\ \A i \in DOMAIN ls :
                 (InTable(ls, i, VersionDepTables) /\ ls[i].t \in {"kv", "obj"}
                     /\ ls[i].key \in DOMAIN manIn.edits)
                 => LET v == VerStr(manIn.edits[ls[i].key])
                    IN  /\ (ls[i].t = "obj" /\ \A f \in DOMAIN ls[i].fields :
                                ls[i].fields[f].k \notin {"version", "workspace", "package"})
                           => OutLine(i) = [ls[i] EXCEPT !.fields = Append(@, F("version", v))]
                        /\ (ls[i].t = "kv" /\ ls[i].val = "*")
                           => OutLine(i) = [ls[i] EXCEPT !.val = v]
           /\ \A j \in VersionDepEntries(ls) :
                 (/\ LastKey(ls, j, "version") = 0
                  /\ \A k \in (j + 1)..TableEnd(ls, j) : ls[k] # WsKey
                  /\ EntryName(ls, j) \in DOMAIN manIn.edits)
                 => \E k \in DOMAIN out :
                       /\ manOut.origin[k] = 0
                       /\ out[k] = KV("version", " = ", "\"",
                                      VerStr(manIn.edits[EntryName(ls, j)]), "")

\* C17: when the version map has an entry for the edited package, a version
\* edit replaces the value of each `version` line of the package table (or
\* workspace.package table) by the new version and keeps the key, the
\* whitespace, the quote character and the trailing comment of the line;
\* the other lines of the table are unchanged, and with no other entry in
\* the map every other line of the manifest is unchanged and none is added.
C17_OnlyVersionValue ==
    (manOut # <<>> /\ manIn.mode = "version" /\ manIn.pkg_name \in DOMAIN manIn.edits)
    => LET ls == Lines(manIn.doc)
           pkgTable(i) == InTable(ls, i, {"package", "workspace.package"})
       IN  /\ \A i \in DOMAIN ls :
                 IF pkgTable(i) /\ ls[i].t = "kv" /\ ls[i].key = "version"
                 THEN /\ OutLine(i).t = "kv"
                      /\ OutLine(i).val = VerStr(manIn.edits[manIn.pkg_name])
                      /\ OutLine(i).key = ls[i].key
                      /\ OutLine(i).sp = ls[i].sp
                      /\ OutLine(i).q = ls[i].q
                      /\ OutLine(i).c = ls[i].c
                 ELSE (pkgTable(i) \/ DOMAIN manIn.edits = {manIn.pkg_name})
                      => OutLine(i) = ls[i]
           /\ DOMAIN manIn.edits = {manIn.pkg_name}
              => Len(manOut.text) = Len(manIn.doc)

\* C17 witness: the line `version='1.0.0' # hello` of a workspace.package
\* table now reads `version='1.0.1' # hello`, and a `version` line of
\* another table is in the manifest too.
C17_Witness ==
    /\ manOut # <<>>
    /\ manIn.mode = "version"
    /\ manIn.edits = ("pkg" :> V(1, 0, 1))
    /\ Len(manIn.doc) = 5
    /\ Lines(manIn.doc)[1] = Hdr("workspace.package", "")
    /\ Lines(manIn.doc)[2] = KV("version", "=", "'", "1.0.0", " # hello")
    /\ Lines(manOut.text)[2] = KV("version", "=", "'", "1.0.1", " # hello")
    /\ Lines(manIn.doc)[4] = Hdr("features", "")
    /\ Lines(manOut.text)[5] = KV("version", " = ", "\"", "1.0.0", "")

\* C18: rename_packages with an entry dep -> new replaces a line
\* `dep = "REQ"` of any dependency table (plain, target-conditioned,
\* workspace, build or dev) by `dep = { version = "REQ", package = "new" }`,
\* with the key, the text up to the value, the quoted requirement and the
\* trailing comment as they were.
C18_BareStringRename ==
    (manOut # <<>> /\ manIn.mode = "rename")
    => LET ls == Lines(manIn.doc)
       IN  \A i \in DOMAIN ls :
              (InTable(ls, i, AllDepTables) /\ ls[i].t = "kv"
                  /\ ls[i].key \in DOMAIN manIn.edits)
              => /\ OutLine(i).t = "obj"
                 /\ OutLine(i).key = ls[i].key
                 /\ OutLine(i).sp = ls[i].sp
                 /\ OutLine(i).c = ls[i].c
                 /\ OutLine(i).fields =
                       <<[k |-> "version", q |-> ls[i].q, v |-> ls[i].val],
                         [k |-> "package", q |-> "\"", v |-> manIn.edits[ls[i].key]]>>

\* C18 witness: `this = "*" # hello` under a target-conditioned
\* dev-dependencies table was rewritten with the new name this3.
C18_Witness ==
    /\ manOut # <<>>
    /\ manIn.mode = "rename"
    /\ manIn.edits = ("this" :> "this3")
    /\ Len(manIn.doc) >= 2
    /\ Lines(manIn.doc)[1] = Hdr("target.dev-dependencies", "")
    /\ Lines(manIn.doc)[2] = KV("this", " = ", "\"", "*", " # hello")
    /\ Lines(manOut.text)[2] =
          Obj("this", " = ", <<F("version", "*"), F("package", "this3")>>, " # hello")

\* the requirement that stands in place of r after an edit with version v
Requirement(r, v, exact) ==
    IF exact THEN ExactStr(v)
    ELSE IF Matches(ParseReq(r), v) THEN r
    ELSE VerStr(v)

\* C19: a dependency entry with a requirement R, for a dependency with the
\* entry V in the version map: when the edit is not exact, R is replaced by
\* V if R does not match V and the line is unchanged if it does; when the
\* edit is exact, R is replaced by =V.  The entries are the lines
\* `dep = "R"` and `dep = { .., version = "R", .. }` of the dependency
\* tables a version edit looks at, and the (last) version line of a
\* dependency's own table; the dependency is the `package` of the entry if
\* it has one, else its key.
C19_RequirementEdit ==
    (manOut # <<>> /\ manIn.mode = "version")
    => LET ls == Lines(manIn.doc)
           ed == manIn.edits
       IN  /\ \A i \in DOMAIN ls :
                 InTable(ls, i, VersionDepTables)
                 => /\ (ls[i].t = "kv" /\ ls[i].key \in DOMAIN ed)
                       => OutLine(i) =
                             [ls[i] EXCEPT !.val = Requirement(@, ed[ls[i].key], manIn.exact)]
                    /\ (/\ ls[i].t = "obj"
                        /\ FieldPos(ls[i], "version") > 0
                        /\ FieldPos(ls[i], "workspace") = 0
                        /\ (IF FieldPos(ls[i], "package") > 0
                            THEN ls[i].fields[FieldPos(ls[i], "package")].v
                            ELSE ls[i].key) \in DOMAIN ed)
                       => OutLine(i) =
                             [ls[i] EXCEPT !.fields[FieldPos(ls[i], "version")].v =
                                Requirement(@,
                                   ed[IF FieldPos(ls[i], "package") > 0
                                      THEN ls[i].fields[FieldPos(ls[i], "package")].v
                                      ELSE ls[i].key],
                                   manIn.exact)]
           /\ \A j \in VersionDepEntries(ls) :
                 (/\ LastKey(ls, j, "version") > 0
                  /\ \A k \in (j + 1)..TableEnd(ls, j) : ls[k] # WsKey
                  /\ EntryName(ls, j) \in DOMAIN ed)
                 => /\ OutLine(LastKey(ls, j, "version")) =
                          [ls[LastKey(ls, j, "version")] EXCEPT
                              !.val = Requirement(@, ed[EntryName(ls, j)], manIn.exact)]
                    /\ \A k \in (j + 1)..TableEnd(ls, j) :
                          k # LastKey(ls, j, "version") => OutLine(k) = ls[k]

\* C19 witness: the requirement 1.0.0 of `this2 = { package = "this",
\* version = "1.0.0" }` and the line `this = "*"` were kept for the new
\* version 1.0.1 of "this", which both requirements match.
C19_Witness ==
    /\ manOut # <<>>
    /\ manIn.mode = "version"
    /\ ~manIn.exact
    /\ manIn.edits = ("this" :> V(1, 0, 1))
    /\ Len(manIn.doc) = 3
    /\ Lines(manIn.doc)[1] = Hdr("dependencies", "")
    /\ Lines(manIn.doc)[2] =
          Obj("this2", " = ", <<F("package", "this"), F("version", "1.0.0")>>, "")
    /\ Lines(manIn.doc)[3] = KV("this", " = ", "\"", "*", " # hello")
    /\ Lines(manOut.text) = Lines(manIn.doc)

(***************************************************************************)
(* utils/version.rs: the bumps ask_version offers (inc_patch, inc_minor,   *)
(* inc_major, inc_preid, custom_pre) over semver versions with a           *)
(* prerelease: a sequence of identifiers, alphanumeric or numeric.         *)
(***************************************************************************)
\* the largest major, minor and patch number of a modelled version
MaxNum == 1

\* the most identifiers in the prerelease of a modelled version
MaxPre == 3

\* Identifier::AlphaNumeric(s), Identifier::Numeric(n)
AlphaNumeric(s) == [num |-> FALSE, s |-> s, n |-> 0]

Numeric(n) == [num |-> TRUE, s |-> "", n |-> n]

\* Display for the numbers of the modelled identifiers
NumStr(n) ==
    IF n = 0 THEN "0" ELSE IF n = 1 THEN "1" ELSE IF n = 2 THEN "2" ELSE "3+"

\* Identifier::to_string
IdStr(x) == IF x.num THEN NumStr(x.n) ELSE x.s

\* the identifiers of the prerelease of a parsed version
PreIds == {AlphaNumeric("a"), AlphaNumeric("b"), Numeric(0), Numeric(1)}

BumpVersions ==
    [major : 0..MaxNum, minor : 0..MaxNum, patch : 0..MaxNum, pre : SeqsUpTo(PreIds, MaxPre)]

\* the identifier handed to inc_preid: the text of --pre-id or of the
\* prompt as an AlphaNumeric, or the leading identifier (custom_pre)
RequestIds == {AlphaNumeric("a"), AlphaNumeric("b"), AlphaNumeric("1"), Numeric(1)}

\* semver: Version::increment_patch, increment_minor, increment_major
increment_patch(v) == [v EXCEPT !.patch = @ + 1, !.pre = <<>>]

increment_minor(v) == [v EXCEPT !.minor = @ + 1, !.patch = 0, !.pre = <<>>]

increment_major(v) == [v EXCEPT !.major = @ + 1, !.minor = 0, !.patch = 0, !.pre = <<>>]

inc_patch(v) == IF v.pre # <<>> THEN [v EXCEPT !.pre = <<>>] ELSE increment_patch(v)

\* (mutant) inc_minor that increments whatever the version is
inc_minor_always(v) == increment_minor(v)

inc_minor(v) ==
    IF v.pre # <<>> /\ v.patch = 0 THEN [v EXCEPT !.pre = <<>>] ELSE increment_minor(v)

inc_major(v) ==
    IF v.pre # <<>> /\ v.patch = 0 /\ v.minor = 0 THEN [v EXCEPT !.pre = <<>>]
    ELSE increment_major(v)

\* `rfind(|x| matches!(x, Identifier::Numeric(_)))` and `*n += 1`
IncLastNumeric(pre) ==
    LET S == {i \in DOMAIN pre : pre[i].num}
    IN  IF S = {} THEN pre
        ELSE LET i == CHOOSE k \in S : \A m \in S : m <= k
             IN  [pre EXCEPT ![i] = Numeric(@.n + 1)]

\* (mutant) inc_preid that starts the prerelease anew whatever it was
inc_preid_reset(v, preid) ==
    IF v.pre = <<>> THEN [increment_patch(v) EXCEPT !.pre = <<preid, Numeric(0)>>]
    ELSE [v EXCEPT !.pre = <<preid, Numeric(0)>>]

inc_preid(v, preid) ==
    IF v.pre = <<>>
    THEN [increment_patch(v) EXCEPT !.pre = <<preid, Numeric(0)>>]
    ELSE IF ~v.pre[1].num
    THEN IF IdStr(preid) = v.pre[1].s
         THEN IF Len(v.pre) >= 2 /\ v.pre[2].num
              THEN [v EXCEPT !.pre = <<preid, Numeric(v.pre[2].n + 1)>>]
              ELSE [v EXCEPT !.pre = <<preid, Numeric(0)>>]
         ELSE [v EXCEPT !.pre = <<preid, Numeric(0)>>]
    ELSE IF IdStr(preid) = NumStr(v.pre[1].n)
         THEN [v EXCEPT !.pre = IncLastNumeric(v.pre)]
         ELSE [v EXCEPT !.pre = <<preid, Numeric(0)>>]

\* custom_pre: the identifier it proposes
custom_pre_id(v) == IF v.pre # <<>> THEN v.pre[1] ELSE AlphaNumeric("alpha")

InitBump ==
    /\ deps = {}
    /\ \E v \in BumpVersions, id \in RequestIds :
          bump = [v |-> v, id |-> id, op |-> "none", out |-> v]
    /\ NotBumpIdle

IncPatch ==
    /\ bump.op = "none"
    /\ bump' = [bump EXCEPT !.op = "patch", !.out = inc_patch(bump.v)]
    /\ UNCHANGED <<deps, notBump>>

IncMinor ==
    /\ bump.op = "none"
    /\ bump' = [bump EXCEPT !.op = "minor", !.out = inc_minor(bump.v)]
    /\ UNCHANGED <<deps, notBump>>

IncMajor ==
    /\ bump.op = "none"
    /\ bump' = [bump EXCEPT !.op = "major", !.out = inc_major(bump.v)]
    /\ UNCHANGED <<deps, notBump>>

IncPreid ==
    /\ bump.op = "none"
    /\ bump' = [bump EXCEPT !.op = "preid", !.out = inc_preid(bump.v, bump.id)]
    /\ UNCHANGED <<deps, notBump>>

CustomPre ==
    /\ bump.op = "none"
    /\ bump' = [bump EXCEPT !.op = "custom", !.id = custom_pre_id(bump.v),
                            !.out = inc_preid(bump.v, custom_pre_id(bump.v))]
    /\ UNCHANGED <<deps, notBump>>

NextBump == IncPatch \/ IncMinor \/ IncMajor \/ IncPreid \/ CustomPre

SpecBump == InitBump /\ [][NextBump]_vars

\* C15: inc_patch drops the prerelease and keeps the numbers of a version
\* that has a prerelease, else increments patch; inc_minor drops the
\* prerelease and keeps the numbers when there is a prerelease and patch is
\* 0, else increments minor and resets patch; inc_major drops the prerelease
\* and keeps the numbers when there is a prerelease and minor = patch = 0,
\* else increments major and resets minor and patch; the result has no
\* prerelease.
C15_Bumps ==
    bump # <<>> =>
       LET v == bump.v
           r == bump.out
           strip == [v EXCEPT !.pre = <<>>]
       IN  /\ bump.op = "patch" =>
                r = IF v.pre # <<>> THEN strip
                    ELSE [major |-> v.major, minor |-> v.minor, patch |-> v.patch + 1,
                          pre |-> <<>>]
           /\ bump.op = "minor" =>
                r = IF v.pre # <<>> /\ v.patch = 0 THEN strip
                    ELSE [major |-> v.major, minor |-> v.minor + 1, patch |-> 0,
                          pre |-> <<>>]
           /\ bump.op = "major" =>
                r = IF v.pre # <<>> /\ v.patch = 0 /\ v.minor = 0 THEN strip
                    ELSE [major |-> v.major + 1, minor |-> 0, patch |-> 0, pre |-> <<>>]
           /\ bump.op \in {"patch", "minor", "major"} => r.pre = <<>>

\* C15 witness: the minor bump of 1.1.0-a.0 is 1.1.0
C15_Witness ==
    /\ bump # <<>>
    /\ bump.op = "minor"
    /\ bump.v = [major |-> 1, minor |-> 1, patch |-> 0,
                 pre |-> <<AlphaNumeric("a"), Numeric(0)>>]
    /\ bump.out = [major |-> 1, minor |-> 1, patch |-> 0, pre |-> <<>>]

\* C16 (as stated): for a version with a prerelease inc_preid keeps the
\* numbers and, when the leading identifier equals id, increments the
\* trailing numeric component of the prerelease (here: of a prerelease that
\* has one), otherwise makes the prerelease `<id>.0`; for a version without
\* prerelease it increments patch and makes the prerelease `<id>.0`.
C16_TrailingNumeric ==
    (bump # <<>> /\ bump.op \in {"preid", "custom"}) =>
       LET v == bump.v
           r == bump.out
       IN  IF v.pre = <<>>
           THEN r = [major |-> v.major, minor |-> v.minor, patch |-> v.patch + 1,
                     pre |-> <<bump.id, Numeric(0)>>]
           ELSE /\ r.major = v.major /\ r.minor = v.minor /\ r.patch = v.patch
                /\ IF IdStr(bump.id) = IdStr(v.pre[1])
                   THEN (\E i \in DOMAIN v.pre : v.pre[i].num)
                        => r.pre = IncLastNumeric(v.pre)
                   ELSE r.pre = <<bump.id, Numeric(0)>>

\* C16 (amended): for a version with a prerelease inc_preid keeps the
\* numbers; when the leading identifier is alphanumeric and equals id, the
\* prerelease becomes `<id>.<n+1>` if the second identifier is the number n
\* and `<id>.0` otherwise, and what follows the second identifier is
\* dropped; when the leading identifier is a number whose text equals id,
\* the last numeric identifier of the prerelease is incremented and the
\* others are kept; otherwise the prerelease becomes `<id>.0`.  For a
\* version without prerelease it increments patch and makes the prerelease
\* `<id>.0`.
C16_IncPreid ==
    (bump # <<>> /\ bump.op \in {"preid", "custom"}) =>
       LET v == bump.v
           r == bump.out
       IN  IF v.pre = <<>>
           THEN r = [major |-> v.major, minor |-> v.minor, patch |-> v.patch + 1,
                     pre |-> <<bump.id, Numeric(0)>>]
           ELSE /\ r.major = v.major /\ r.minor = v.minor /\ r.patch = v.patch
                /\ IF IdStr(bump.id) # IdStr(v.pre[1])
                   THEN r.pre = <<bump.id, Numeric(0)>>
                   ELSE IF v.pre[1].num
                   THEN r.pre = IncLastNumeric(v.pre)
                   ELSE r.pre = <<bump.id,
                                  IF Len(v.pre) >= 2 /\ v.pre[2].num
                                  THEN Numeric(v.pre[2].n + 1) ELSE Numeric(0)>>

\* C16 witness: inc_preid of 1.0.0-a.b.1 with the identifier a is 1.0.0-a.0
C16_Witness ==
    /\ bump # <<>>
    /\ bump.op = "preid"
    /\ bump.id = AlphaNumeric("a")
    /\ bump.v = [major |-> 1, minor |-> 0, patch |-> 0,
                 pre |-> <<AlphaNumeric("a"), AlphaNumeric("b"), Numeric(1)>>]
    /\ bump.out = [major |-> 1, minor |-> 0, patch |-> 0,
                   pre |-> <<AlphaNumeric("a"), Numeric(0)>>]

(***************************************************************************)
(* publish.rs: Publish::run with its git tags.  An iteration of the loop   *)
(* is one step whose outcome (already published, published, failed) is     *)
(* chosen; individual_tag, global_tag and push are the methods of GitOpt   *)
(* that Publish::run calls.                                                *)
(***************************************************************************)
TagOrder == <<"a", "b", "c">>

\* the tag of the workspace version
GlobalTag == "v"

\* `versions`: None (publishing from the current commit, or nothing was
\* versioned), Some((None, _)): no version of the default group,
\* Some((Some(new_version), _))
VersionsCases == {"None", "SomeNone", "SomeSome"}

\* GitOpt::tag: the tag is created unless it exists
tag(repo, t) == repo \cup {t}

\* individual_tag: the tag of one package is applied, unless individual
\* tags are switched off; the tag is returned
individual_tag(st, p) ==
    IF st.individual
    THEN [st EXCEPT !.created = IF p \in st.repo THEN @ ELSE Append(@, p),
                    !.repo = tag(@, p),
                    !.tags = Append(@, p)]
    ELSE st

\* global_tag: the tag of the workspace version is applied, unless the
\* global tag is switched off; the tag is returned
global_tag(st) ==
    IF st.global
    THEN [st EXCEPT !.created = IF GlobalTag \in st.repo THEN @ ELSE Append(@, GlobalTag),
                    !.repo = tag(@, GlobalTag),
                    !.tags = Append(@, GlobalTag)]
    ELSE st

\* push: the branch and the tags are pushed
push(st) == [st EXCEPT !.pushed = @ \cup Range(st.tags)]

InitTags ==
    /\ deps = {}
    /\ \E vs \in VersionsCases, ind \in BOOLEAN, glob \in BOOLEAN,
          repo \in SUBSET {"a", "b", GlobalTag} :
          tg = [pc |-> "loop", pos |-> 1, versions |-> vs, individual |-> ind,
                global |-> glob, repo |-> repo, start |-> repo, created |-> <<>>,
                tags |-> <<>>, pushed |-> {}, published |-> <<>>, result |-> "running"]
    /\ NotTgIdle

\* an iteration for a package the index already holds: `continue`
TagSkip ==
    /\ tg.pc = "loop" /\ tg.pos <= Len(TagOrder)
    /\ tg' = [tg EXCEPT !.pos = @ + 1]
    /\ UNCHANGED <<deps, notTg>>

\* an iteration that publishes: `cargo publish`, check_index, individual_tag
TagPublish ==
    /\ tg.pc = "loop" /\ tg.pos <= Len(TagOrder)
    /\ LET p == TagOrder[tg.pos]
           st == [tg EXCEPT !.published = Append(@, p), !.pos = @ + 1]
       IN  tg' = individual_tag(st, p)
    /\ UNCHANGED <<deps, notTg>>

\* an iteration that fails: Error::Publish, PublishTimeout, an index or a
\* git error
TagFail ==
    /\ tg.pc = "loop" /\ tg.pos <= Len(TagOrder)
    /\ tg' = [tg EXCEPT !.pc = "error", !.result = "Err"]
    /\ UNCHANGED <<deps, notTg>>

\* after the loop: global_tag and push if `versions` holds a new version
AfterLoop ==
    /\ tg.pc = "loop" /\ tg.pos > Len(TagOrder)
    /\ tg' = IF tg.versions = "SomeSome"
             THEN [push(global_tag(tg)) EXCEPT !.pc = "done", !.result = "Ok"]
             ELSE [tg EXCEPT !.pc = "done", !.result = "Ok"]
    /\ UNCHANGED <<deps, notTg>>

\* global_tag or push fails
AfterLoopFails ==
    /\ tg.pc = "loop" /\ tg.pos > Len(TagOrder)
    /\ tg.versions = "SomeSome"
    /\ \E tagged \in BOOLEAN :
          tg' = [(IF tagged THEN global_tag(tg) ELSE tg) EXCEPT
                    !.pc = "error", !.result = "Err"]
    /\ UNCHANGED <<deps, notTg>>

NextTags == TagSkip \/ TagPublish \/ TagFail \/ AfterLoop \/ AfterLoopFails

SpecTags == InitTags /\ [][NextTags]_vars

\* C20: a tag is applied only when every package of the order has
\* succeeded; a tag that exists is not created again; a run that completes
\* the loop, returns Ok and has produced tags has pushed them.
C20_TagsAfterSuccess ==
    tg # <<>> =>
       /\ tg.created # <<>> => tg.pos > Len(TagOrder)
       /\ \A i \in DOMAIN tg.created : tg.created[i] \notin tg.start
       /\ (tg.pc = "done" /\ tg.tags # <<>>) => Range(tg.tags) \subseteq tg.pushed

(***************************************************************************)
(* publish.rs: the candidates of Publish::run                              *)
(***************************************************************************)
\* the workspaces of the runs: the chain a <- b <- c, with d on its own
SelectDeps ==
    {{VerEdge(<<"b", "a">>, "normal", ReqAny), VerEdge(<<"c", "b">>, "normal", ReqAny)},
     {VerEdge(<<"b", "a">>, "normal", ReqCaret100), VerEdge(<<"c", "b">>, "build", ReqAny)}}

\* the variables of the components that a run's planner and selection leave out
notSelVer == <<dagVars, grpVars, manVars, pubVars, chk, app, bump, tg, nm, git>>

InitSelect ==
    /\ deps \in SelectDeps
    /\ ws \in [Pkgs -> PkgClass]
    /\ ws["a"] \in {Cohort("default"), Cohort("excluded")}
    /\ ws["b"] \in {Cohort("default"), Cohort("g1")}
    /\ ws["c"] \in {Cohort("default"), Indep("default"), Cohort("excluded")}
    /\ ws["d"] = Cohort("default")
    /\ changed0 \in {S \in SUBSET Pkgs : S # {} /\ Cardinality(S) <= MaxChanged}
    /\ changed_p = changed0
    /\ unchanged_p = Pkgs \ changed0
    /\ bumped_pkgs = <<>>
    /\ iter = 0
    /\ unversioned_deps = {}
    /\ \E from_git \in BOOLEAN, private \in SUBSET {"c", "d"} :
          /\ sel = [from_git |-> from_git, private |-> private, pc |-> "start",
                    pkgs |-> <<>>, visited |-> <<>>, i |-> 0, published |-> {}]
          /\ verPc = IF from_git THEN "idle" ELSE "loop"
    /\ DagIdle /\ GrpIdle /\ ManIdle /\ PubIdle /\ ChkIdle /\ AppIdle /\ BumpIdle /\ TgIdle
    /\ NmIdle /\ GitIdle

\* `let (names, visited) = dag(&pkgs)` and the filter that drops the private
\* packages
Candidates(cands) == SelectSeq(dag(cands).seq, LAMBDA p : p \notin sel.private)

\* !from_git: the candidates are the packages of the plan that do_versioning
\* returns (a map ordered by package name)
SelectPlanned ==
    /\ sel.pc = "start"
    /\ ~sel.from_git
    /\ verPc = "planned"
    /\ LET cands == InOrder(Planned)
       IN  sel' = [sel EXCEPT !.pc = "loop", !.pkgs = cands,
                              !.visited = Candidates(cands), !.i = 1]
    /\ UNCHANGED <<deps, verVars, notSelVer>>

\* from_git: the candidates are all of metadata.packages
SelectFromGit ==
    /\ sel.pc = "start"
    /\ sel.from_git
    /\ sel' = [sel EXCEPT !.pc = "loop", !.pkgs = PkgOrder,
                          !.visited = Candidates(PkgOrder), !.i = 1]
    /\ UNCHANGED <<deps, verVars, notSelVer>>

\* one turn of `for p in &visited`: the package is already published, or it
\* is passed to `cargo publish`
SelectPublish ==
    /\ sel.pc = "loop"
    /\ sel.i <= Len(sel.visited)
    /\ \E already \in BOOLEAN :
          sel' = [sel EXCEPT !.i = sel.i + 1,
                             !.published = IF already THEN sel.published
                                           ELSE sel.published \cup {sel.visited[sel.i]}]
    /\ UNCHANGED <<deps, verVars, notSelVer>>

\* `cargo publish` fails on the package: run returns Error::Publish
SelectPublishFails ==
    /\ sel.pc = "loop"
    /\ sel.i <= Len(sel.visited)
    /\ sel' = [sel EXCEPT !.pc = "error",
                          !.published = sel.published \cup {sel.visited[sel.i]}]
    /\ UNCHANGED <<deps, verVars, notSelVer>>

\* the loop is over
SelectDone ==
    /\ sel.pc = "loop"
    /\ sel.i > Len(sel.visited)
    /\ sel' = [sel EXCEPT !.pc = "done"]
    /\ UNCHANGED <<deps, verVars, notSelVer>>

NextSelect ==
    \/ PlanIteration \/ PlanFails \/ LoopExit
    \/ SelectPlanned \/ SelectFromGit \/ SelectPublish \/ SelectPublishFails \/ SelectDone

SpecSelect == InitSelect /\ [][NextSelect]_vars

\* the packages of the Excluded group
ExcludedPkgs == {p \in Pkgs : ws[p].group = "excluded"}

\* no package of the Excluded group has an entry in the version plan
ExcludedNeverPlanned == ExcludedPkgs \cap Planned = {}

\* C21: a package of the Excluded group never has an entry in the version
\* plan and is never passed to `cargo publish`, whether the run versions the
\* packages or publishes from the current commit
C21_ExcludedNeverPublished ==
    /\ ExcludedNeverPlanned
    /\ ExcludedPkgs \cap sel.published = {}

\* a run that versions the packages publishes no Excluded package
C21_PlannedRunsOnly ==
    ~sel.from_git => ExcludedPkgs \cap sel.published = {}

\* line i of ls is the header of a dev-dependencies table or of the own
\* table of a dev-dependency, or a line of such a table
DevTable(ls, i) ==
    LET j == IF ls[i].t = "hdr" THEN i ELSE HeaderOf(ls, i)
    IN  j > 0 /\ TableKind(ls[j]) \in {"DEV_DEP_TABLE", "DEV_DEP_ENTRY"}

\* C22 (as stated): a version edit with an entry for a dependency declared
\* under a dev-dependencies table, as a single-line entry or in its own
\* table `[dev-dependencies.<name>]`, whose requirement no longer matches
\* the new version rewrites that requirement.
C22_DevDepsRewritten ==
    (manOut # <<>> /\ manIn.mode = "version")
    => LET ls == Lines(manIn.doc)
           ed == manIn.edits
       IN  \A i \in DOMAIN ls :
              /\ (/\ ls[i].t = "kv"
                  /\ DevTable(ls, i)
                  /\ ls[HeaderOf(ls, i)].name = ""
                  /\ ls[i].key \in DOMAIN ed
                  /\ ~Matches(ParseReq(ls[i].val), ed[ls[i].key]))
                 => OutLine(i) = [ls[i] EXCEPT !.val = VerStr(ed[ls[i].key])]
              /\ (/\ ls[i].t = "hdr"
                  /\ TableKind(ls[i]) = "DEV_DEP_ENTRY"
                  /\ LastKey(ls, i, "version") > 0
                  /\ \A k \in (i + 1)..TableEnd(ls, i) : ls[k] # WsKey
                  /\ EntryName(ls, i) \in DOMAIN ed
                  /\ ~Matches(ParseReq(ls[LastKey(ls, i, "version")].val),
                              ed[EntryName(ls, i)]))
                 => OutLine(LastKey(ls, i, "version")).val = VerStr(ed[EntryName(ls, i)])

\* C22 (amended): a version edit leaves the dev-dependencies tables and the
\* own tables of dev-dependencies as they are, whatever the version map
\* holds: each of their lines is in the output unchanged, and no line is
\* added to them.
C22_DevDepsUntouched ==
    (manOut # <<>> /\ manIn.mode = "version")
    => LET ls == Lines(manIn.doc)
       IN  /\ \A i \in DOMAIN ls : DevTable(ls, i) => OutLine(i) = ls[i]
           /\ \A k \in DOMAIN manOut.origin :
                 manOut.origin[k] = 0
                 => /\ k > 1
                    /\ manOut.origin[k - 1] # 0
                    /\ ~DevTable(ls, manOut.origin[k - 1])

\* C22 witness: `this = "1.0.0"` under [dev-dependencies] and the new
\* version 2.0.0 of "this", which the requirement does not match: the
\* output holds the lines of the input.
C22_Witness ==
    /\ manOut # <<>>
    /\ manIn.mode = "version"
    /\ "this" \in DOMAIN manIn.edits
    /\ manIn.edits["this"] = V(2, 0, 0)
    /\ Len(manIn.doc) >= 2
    /\ Lines(manIn.doc)[1] = Hdr("dev-dependencies", "")
    /\ Lines(manIn.doc)[2] = KV("this", " = ", "\"", "1.0.0", "")
    /\ Lines(manOut.text) = Lines(manIn.doc)

(***************************************************************************)
(* utils/config.rs: read_config and the names of the custom groups         *)
(***************************************************************************)
\* the most pieces a modelled group name is made of
MaxName == 2

\* the pieces of the names: the reserved words, a letter, the separator,
\* a space and a tab; a name is the concatenation of its pieces
NamePieces == {"default", "excluded", "g", ":", " ", "\t"}

GroupNames == SeqsUpTo(NamePieces, MaxName)

\* char::is_whitespace
Whitespace == {" ", "\t"}

\* GroupName::validate: Err for a name that contains the separator
GroupName_validate(s) == ":" \notin Range(s)

\* validate_group_name: Ok (TRUE) or Err (FALSE)
validate_group_name(s) ==
    /\ GroupName_validate(s)
    /\ s \notin {<<"excluded">>, <<"default">>}

InitNames ==
    /\ deps = {}
    /\ \E gs \in SeqsUpTo(GroupNames, 2) :
          nm = [groups |-> gs, pc |-> "start", mutated |-> FALSE]
    /\ DagIdle /\ VerIdle /\ GrpIdle /\ ManIdle /\ PubIdle /\ ChkIdle /\ AppIdle
    /\ BumpIdle /\ TgIdle /\ SelIdle /\ GitIdle

\* read_config: from_value deserializes the `group` entries and fails with
\* BadMetadata when validate_group_name refuses a name
ReadConfig ==
    /\ nm.pc = "start"
    /\ nm' = [nm EXCEPT !.pc = IF \A i \in DOMAIN nm.groups : validate_group_name(nm.groups[i])
                                THEN "ok" ELSE "error"]
    /\ UNCHANGED <<deps, notNm>>

\* the command goes on after read_config returned Ok: from here on it may
\* write manifests, commit and tag
Proceed ==
    /\ nm.pc = "ok"
    /\ ~nm.mutated
    /\ nm' = [nm EXCEPT !.mutated = TRUE]
    /\ UNCHANGED <<deps, notNm>>

NextNames == ReadConfig \/ Proceed

SpecNames == InitNames /\ [][NextNames]_vars

\* the names the spec allows for a custom group
AllowedName(s) ==
    /\ s \notin {<<"default">>, <<"excluded">>}
    /\ ":" \notin Range(s)
    /\ Range(s) \cap Whitespace = {}

\* C23: a configuration is accepted only if each custom group name is none
\* of the reserved names and holds neither the separator `:` nor a
\* whitespace character; every other configuration is refused, and nothing
\* is changed before it is refused
C23_ValidNames ==
    /\ nm.pc = "ok" => \A i \in DOMAIN nm.groups : AllowedName(nm.groups[i])
    /\ nm.pc = "error" => \E i \in DOMAIN nm.groups : ~AllowedName(nm.groups[i])
    /\ nm.mutated => nm.pc = "ok"

\* what the checks of the code refuse: the reserved names and the names that
\* hold the separator, and nothing else
C23_ReservedAndSeparator ==
    /\ nm.pc = "ok" => \A i \in DOMAIN nm.groups :
                          /\ nm.groups[i] \notin {<<"default">>, <<"excluded">>}
                          /\ ":" \notin Range(nm.groups[i])
    /\ nm.pc = "error" => \E i \in DOMAIN nm.groups :
                             \/ nm.groups[i] \in {<<"default">>, <<"excluded">>}
                             \/ ":" \in Range(nm.groups[i])
    /\ nm.mutated => nm.pc = "ok"

(***************************************************************************)
(* Properties of group resolution                                          *)
(***************************************************************************)
\* the groups of the result whose list holds p
GroupsOf(p) == {g \in DOMAIN grpOut.named_groups : Contains(grpOut.named_groups[g], p)}

\* the `filter` argument lets the group g pass
Passes(g) == ~grpIn.filter.some \/ g \in grpIn.filter.names

\* C24: in a result of group resolution every considered package (not
\* skipped as private, its group let through by the filter) is in the list
\* of exactly one group, once: Excluded if an exclusion glob matches it,
\* even when a custom group's globs match it too; otherwise Default if no
\* custom group matches it, and the custom group if exactly one matches it.
\* A package whose group the filter drops is in no list.
C24_ExactlyOneGroup ==
    (grpOut # <<>> /\ grpOut.status = "Ok")
    => /\ \A g \in DOMAIN grpOut.named_groups : NoDup(grpOut.named_groups[g])
       /\ \A p \in GrpPkgs :
             /\ Cardinality(GroupsOf(p)) <= 1
             /\ ~(~grpIn.all /\ p \in grpIn.private)
                => /\ p \in grpIn.exclude
                      => GroupsOf(p) = IF Passes("excluded") THEN {"excluded"} ELSE {}
                   /\ (p \notin grpIn.exclude /\ MatchingGroups(p) = {})
                      => GroupsOf(p) = IF Passes("default") THEN {"default"} ELSE {}
                   /\ (p \notin grpIn.exclude /\ Cardinality(MatchingGroups(p)) = 1)
                      => \E g \in MatchingGroups(p) :
                            GroupsOf(p) = IF Passes(g) THEN {g} ELSE {}

\* C24 witness: package a matches an exclusion glob and the globs of the
\* custom group g1, and the result has it in Excluded only; package b
\* matches nothing and is in Default.
C24_Witness ==
    /\ grpOut # <<>>
    /\ grpOut.status = "Ok"
    /\ "a" \in grpIn.exclude
    /\ "a" \in grpIn.group[1].members
    /\ "b" \notin grpIn.exclude
    /\ MatchingGroups("b") = {}
    /\ GroupsOf("a") = {"excluded"}
    /\ GroupsOf("b") = {"default"}

Entered == Pkgs \ (unchanged_p \cup changed_p)

\* the cohort members of group g: its packages that are not independent
CohortOf(g) == {p \in Pkgs : ws[p].group = g /\ ~ws[p].independent}

\* C26: when the loop has finished, for a group of the plan that declares
\* no version, with the new version chosen at the one prompt for the
\* cohort: every cohort member that entered the changed set, in the first
\* or in a later iteration, and whose current version differs from the
\* chosen version has an entry with that version, and all cohort entries of
\* the group have that one new version.
C26_CohortShares ==
    verPc = "planned"
    => \A g \in DOMAIN bumped_pkgs :
          (~GroupVer(g).some /\ bumped_pkgs[g].new_group_version.some)
          => LET chosen == bumped_pkgs[g].new_group_version.v
             IN  /\ \A p \in CohortOf(g) \cap Entered :
                       CurVersion[p] # chosen
                       => \E e \in Range(bumped_pkgs[g].new_versions) :
                             e.pkg = p /\ e.new = chosen
                 /\ \A e \in Range(bumped_pkgs[g].new_versions) :
                       e.pkg \in CohortOf(g) => e.new = chosen

\* the index in the output of the line that stands for line i of the input
OutIndex(i) == CHOOSE k \in DOMAIN manOut.origin : manOut.origin[k] = i

\* a line was added to the output right after the line that stands for
\* line i of the input
AddedAfter(i) ==
    /\ OutIndex(i) < Len(manOut.origin)
    /\ manOut.origin[OutIndex(i) + 1] = 0

\* C27: a version edit of the own table `[dependencies.<name>]`,
\* `[build-dependencies.<name>]` or `[workspace.dependencies.<name>]` of a
\* dependency that is not workspace-inherited looks up the version map
\* under the table's `package` value if it has one, before or after the
\* version line, and under <name> otherwise.  With an entry V: a version
\* line is overwritten in place by the requirement edit and no line is
\* added; a table without version line gains exactly one line
\* `version = "V"` after its last line, before the next header or at the
\* end of the input.  Without an entry the table is left as it is, also
\* when the map has an entry for <name> and the table names another package.
C27_SubTableEdit ==
    (manOut # <<>> /\ manIn.mode = "version")
    => LET ls == Lines(manIn.doc)
           out == Lines(manOut.text)
           ed == manIn.edits
       IN  \A j \in VersionDepEntries(ls) :
              (\A k \in (j + 1)..TableEnd(ls, j) : ls[k] # WsKey)
              => LET name == EntryName(ls, j)
                     v == LastKey(ls, j, "version")
                     e == TableEnd(ls, j)
                 IN  /\ OutLine(j) = ls[j]
                     /\ \A k \in (j + 1)..e : k # v => OutLine(k) = ls[k]
                     /\ \A k \in j..(e - 1) : ~AddedAfter(k)
                     /\ (name \in DOMAIN ed /\ v > 0)
                        => /\ OutLine(v) =
                                 [ls[v] EXCEPT !.val = Requirement(@, ed[name], manIn.exact)]
                           /\ ~AddedAfter(e)
                     /\ (name \in DOMAIN ed /\ v = 0)
                        => /\ AddedAfter(e)
                           /\ out[OutIndex(e) + 1] =
                                 KV("version", " = ", "\"", VerStr(ed[name]), "")
                           /\ IF e = Len(ls) THEN Len(out) = OutIndex(e) + 1
                              ELSE manOut.origin[OutIndex(e) + 2] = e + 1
                     /\ name \notin DOMAIN ed
                        => /\ ~AddedAfter(e)
                           /\ v > 0 => OutLine(v) = ls[v]

\* C27 witness: the table of this2 holds the version line before the line
\* `package = "this"`, the version map has the entry 2.0.0 for "this" and
\* none for this2, and the version line now holds 2.0.0.
C27_Witness ==
    /\ manOut # <<>>
    /\ manIn.mode = "version"
    /\ DOMAIN manIn.edits = {"this"}
    /\ manIn.edits["this"] = V(2, 0, 0)
    /\ ~manIn.exact
    /\ Len(manIn.doc) >= 3
    /\ Lines(manIn.doc)[1] = Hdr("dependencies", "this2")
    /\ Lines(manIn.doc)[2] = KV("version", " = ", "\"", "1.0.0", "")
    /\ Lines(manIn.doc)[3] = KV("package", " = ", "\"", "this", "")
    /\ Lines(manOut.text)[2] = KV("version", " = ", "\"", "2.0.0", "")
    /\ Lines(manOut.text)[3] = KV("package", " = ", "\"", "this", "")

\* a table without version line, followed by another table: the version line
\* is added before the header of that table
C27_AppendBeforeHeader ==
    /\ manOut # <<>>
    /\ manIn.mode = "version"
    /\ "this" \in DOMAIN manIn.edits
    /\ Len(manIn.doc) >= 3
    /\ Lines(manIn.doc)[1] = Hdr("build-dependencies", "this2")
    /\ Lines(manIn.doc)[2] = KV("package", " = ", "\"", "this", "")
    /\ Lines(manIn.doc)[3].t = "hdr"
    /\ Len(manOut.text) = Len(manIn.doc) + 1
    /\ Lines(manOut.text)[3] = KV("version", " = ", "\"", VerStr(manIn.edits["this"]), "")
    /\ Lines(manOut.text)[4] = Lines(manIn.doc)[3]

(***************************************************************************)
(* Termination of dag()                                                    *)
(***************************************************************************)
\* C28: dag() does not return when a candidate has a normal or build
\* dependency on itself or lies on a cycle of such dependencies among the
\* candidates, and only then; when it returns, the order holds each
\* candidate exactly once and nothing else.
C28_NoCycleDetection ==
    dagState # "ready"
    => /\ dagState = "diverged" <=> ~Acyclic
       /\ dagState = "done" <=> Acyclic
       /\ dagState = "done" => NoDup(visited) /\ Range(visited) = Range(pkgs)

\* C28 witness: a has a normal dependency on itself and no other declaration
\* is a normal or build dependency; dag() does not return.
C28_Witness ==
    /\ dagState = "diverged"
    /\ [from |-> "a", to |-> "a", kind |-> "normal", req |-> ReqAny] \in deps
    /\ \A e \in deps : e.from # e.to => e.kind = "dev"

\* a cycle b -> c -> b of a normal and a build dependency: dag() does not return
C28_CycleDiverges ==
    /\ dagState = "diverged"
    /\ \A e \in deps : e.from # e.to
    /\ \E e \in deps : e.from = "b" /\ e.to = "c" /\ e.kind = "normal"
    /\ \E e \in deps : e.from = "c" /\ e.to = "b" /\ e.kind = "build"

\* a returned order for candidates that are not the whole workspace: the
\* dependency c of a is not a candidate and is not in the order
C28_OutsideNotTraversed ==
    /\ dagState = "done"
    /\ pkgs = <<"a", "b">>
    /\ \E e \in deps : e.from = "a" /\ e.to = "c" /\ e.kind = "normal"
    /\ visited = <<"a", "b">>

(***************************************************************************)
(* GitOpt::validate and GitOpt::commit (utils/git.rs), in the order        *)
(* do_versioning runs them: validate first, commit with validate's branch  *)
(***************************************************************************)

Branches == {"HEAD", "master", "main", "dev"}

Patterns == {"master", "dev", "*"}

NoPattern == "unset"

NoBranch == "None"

\* Glob::new(p).compile_matcher().is_match(s) for a literal pattern and `*`
GlobMatch(p, s) == p = "*" \/ p = s

\* the option combinations clap accepts: --no-git-commit conflicts with
\* --allow-branch and --amend, --no-git-tag with --tag-existing
GitOpts ==
    { o \in [no_git_commit : BOOLEAN, no_git_push : BOOLEAN, no_git_tag : BOOLEAN,
             tag_existing : BOOLEAN, amend : BOOLEAN,
             allow_branch : Patterns \cup {NoPattern}] :
        /\ o.no_git_commit => (o.allow_branch = NoPattern /\ ~o.amend)
        /\ ~(o.no_git_tag /\ o.tag_existing) }

\* what the git commands of validate report about the working directory
GitRepos ==
    [is_repo : BOOLEAN, commits : 0..1, branch : Branches,
     remote_ref : BOOLEAN, behind : 0..1]

GitOk(b) == [err |-> "none", branch |-> b]

GitErr(e) == [err |-> e, branch |-> NoBranch]

GitOpt_validate(o, r, config_allow) ==
    IF o.no_git_commit THEN GitOk(NoBranch)
    ELSE IF ~r.is_repo THEN GitErr("NotGit")
    ELSE IF r.commits = 0 THEN GitErr("NoCommits")
    ELSE IF r.branch = "HEAD" THEN GitErr("NotBranch")
    ELSE LET allow_branch ==
                 IF o.allow_branch # NoPattern THEN o.allow_branch
                 ELSE IF config_allow # NoPattern THEN config_allow
                 ELSE "master"
             test_branch ==
                 IF r.branch = "main" /\ allow_branch = "master"
                 THEN "master" ELSE r.branch
         IN  IF ~GlobMatch(allow_branch, test_branch) THEN GitErr("BranchNotAllowed")
             ELSE IF ~o.no_git_push /\ ~r.remote_ref THEN GitErr("NoRemote")
             ELSE IF ~o.no_git_push /\ r.behind # 0 THEN GitErr("BehindRemote")
             ELSE GitOk(r.branch)

InitGit ==
    /\ deps = {}
    /\ \E o \in GitOpts, r \in GitRepos, c \in Patterns \cup {NoPattern} :
          git = [opt |-> o, repo |-> r, config_allow |-> c, pc |-> "start",
                 branch |-> NoBranch, err |-> "none",
                 committed |-> FALSE, tagged |-> FALSE, pushed |-> FALSE]
    /\ DagIdle /\ VerIdle /\ GrpIdle /\ ManIdle /\ PubIdle /\ ChkIdle /\ AppIdle
    /\ BumpIdle /\ TgIdle /\ SelIdle /\ NmIdle

\* do_versioning: let branch = self.git.validate(..)?
GitValidate ==
    /\ git.pc = "start"
    /\ LET res == GitOpt_validate(git.opt, git.repo, git.config_allow)
       IN  git' = [git EXCEPT !.pc = IF res.err = "none" THEN "validated" ELSE "error",
                              !.err = res.err,
                              !.branch = res.branch]
    /\ UNCHANGED <<deps, notGit>>

\* do_versioning between validate and commit: the versions are planned and
\* written to the manifests
GitVersioned ==
    /\ git.pc = "validated"
    /\ git' = [git EXCEPT !.pc = "commit"]
    /\ UNCHANGED <<deps, notGit>>

\* do_versioning returns before commit: nothing to release, or an error of
\* the planning or of the manifest update
GitReturnsEarly ==
    /\ git.pc = "validated"
    /\ git' = [git EXCEPT !.pc = "returned"]
    /\ UNCHANGED <<deps, notGit>>

\* commit, first block: `git add -u` and `git commit`, unless no_git_commit
GitCommitStep ==
    /\ git.pc = "commit"
    /\ \/ /\ git.opt.no_git_commit
          /\ git' = [git EXCEPT !.pc = "tag"]
       \/ /\ ~git.opt.no_git_commit
          /\ \E ok \in BOOLEAN :
                git' = [git EXCEPT !.pc = IF ok THEN "tag" ELSE "error",
                                   !.err = IF ok THEN "none" ELSE "NotCommitted",
                                   !.committed = ok]
    /\ UNCHANGED <<deps, notGit>>

\* commit, second block: tagging
GitTagStep ==
    /\ git.pc = "tag"
    /\ \/ /\ ~((~git.opt.no_git_commit \/ git.opt.tag_existing) /\ ~git.opt.no_git_tag)
          /\ git' = [git EXCEPT !.pc = "push"]
       \/ /\ (~git.opt.no_git_commit \/ git.opt.tag_existing) /\ ~git.opt.no_git_tag
          /\ \E ok \in BOOLEAN :
                git' = [git EXCEPT !.pc = IF ok THEN "push" ELSE "error",
                                   !.err = IF ok THEN "none" ELSE "NotTagged",
                                   !.tagged = ok]
    /\ UNCHANGED <<deps, notGit>>

\* commit, third block: branch.expect(INTERNAL_ERR) and `git push`
GitPushStep ==
    /\ git.pc = "push"
    /\ \/ /\ git.opt.no_git_push
          /\ git' = [git EXCEPT !.pc = "done"]
       \/ /\ ~git.opt.no_git_push
          /\ git.branch = NoBranch
          /\ git' = [git EXCEPT !.pc = "panic"]
       \/ /\ ~git.opt.no_git_push
          /\ git.branch # NoBranch
          /\ \E ok \in BOOLEAN :
                git' = [git EXCEPT !.pc = IF ok THEN "done" ELSE "error",
                                   !.err = IF ok THEN "none" ELSE "NotPushed",
                                   !.pushed = ok]
    /\ UNCHANGED <<deps, notGit>>

NextGit ==
    \/ GitValidate
    \/ GitVersioned
    \/ GitReturnsEarly
    \/ GitCommitStep
    \/ GitTagStep
    \/ GitPushStep

SpecGit == InitGit /\ [][NextGit]_vars

\* C29: commit never reaches its push step without a branch name: whenever
\* pushing is enabled, validate has returned Some(branch), so that
\* branch.expect(..) cannot panic, also when no_git_commit is set
C29_PushHasBranch ==
    git # <<>>
    => /\ git.pc # "panic"
       /\ (git.pc = "push" /\ ~git.opt.no_git_push) => git.branch # NoBranch

\* the push step is reached with pushing enabled and committing disabled
C29_PushWithoutCommit ==
    ~(/\ git # <<>>
      /\ git.pc = "push"
      /\ ~git.opt.no_git_push
      /\ git.opt.no_git_commit)

\* with committing enabled the push step always has validate's branch,
\* which is the checked-out branch, allowed and not behind its remote
C29_CommitEnabledHasBranch ==
    (git # <<>> /\ git.pc \in {"commit", "tag", "push", "done"} /\ ~git.opt.no_git_commit)
    => /\ git.branch = git.repo.branch
       /\ git.branch \notin {NoBranch, "HEAD"}
       /\ git.repo.is_repo /\ git.repo.commits > 0
       /\ ~git.opt.no_git_push => (git.repo.remote_ref /\ git.repo.behind = 0)

(***************************************************************************)
(* utils/version.rs: the version plan during the propagation loop          *)
(***************************************************************************)

\* the entry list of group g of the plan
EntriesOf(g) == bumped_pkgs[g].new_versions

\* C30: after any number of iterations of the propagation loop the plan
\* holds at most one entry per package, every entry's previous version is
\* the package's current version, every entry's new version differs from
\* its previous version, and no group of the plan has an empty entry list
C30_PlanWellFormed ==
    /\ \A g \in DOMAIN bumped_pkgs :
          /\ EntriesOf(g) # <<>>
          /\ \A k \in DOMAIN EntriesOf(g) :
                /\ EntriesOf(g)[k].old = CurVersion[EntriesOf(g)[k].pkg]
                /\ EntriesOf(g)[k].new # EntriesOf(g)[k].old
          /\ \A j, k \in DOMAIN EntriesOf(g) :
                j # k => EntriesOf(g)[j].pkg # EntriesOf(g)[k].pkg
    /\ \A g, h \in DOMAIN bumped_pkgs :
          g # h => \A j \in DOMAIN EntriesOf(g), k \in DOMAIN EntriesOf(h) :
                      EntriesOf(g)[j].pkg # EntriesOf(h)[k].pkg

\* a plan of two groups after three iterations, in which a changed package
\* that was asked for its own version again has no entry
C30_Witness ==
    /\ verPc = "loop"
    /\ iter >= 3
    /\ DOMAIN bumped_pkgs = {"default", "g1"}
    /\ Len(EntriesOf("default")) >= 2
    /\ \E p \in changed0 : ws[p].group = "default" /\ p \notin Planned

\* a group whose changed members all keep their version is not in the plan
C30_GroupRemoved ==
    /\ iter >= 1
    /\ \E p \in changed0 : ws[p].group = "default"
    /\ "default" \notin DOMAIN bumped_pkgs
    /\ "g1" \in DOMAIN bumped_pkgs

=============================================================================
